---- MODULE Spec2Model ----
(***************************************************************************)
(* Model of the slide-generation flow of sanko-backend:                    *)
(*   app/crew/flows/slide_generation.py  (FlowState, SlideGenerationFlow)  *)
(*   app/api/routers/generation.py       (the HTTP handlers and the        *)
(*                                        in-memory session store)         *)
(*   app/models/schemas.py               (GatheredInfo, OrderForm, ...)    *)
(* One session of the store is modelled.  All handlers are `async def`     *)
(* coroutines on one event loop: a handler runs without interruption up to *)
(* an await that really suspends.  The emitter of a request has no         *)
(* listeners and crew.kickoff() is a blocking call, so the only suspension *)
(* points are the hand-over to a background task and asyncio.gather in     *)
(* _run_generator.                                                         *)
(***************************************************************************)
EXTENDS Integers, Sequences, FiniteSets, TLC

\* ------------------------------------------------------------------ bounds
MaxTasks == 2      \* start_generation requests accepted before a task runs
MaxTopics == 1     \* key_topics an agent-written order form may carry
MaxMods == 2       \* length of a modification list given to approve_outline
MaxRecorded == 3   \* record_attempt calls followed per stage
MaxListeners == 3  \* listeners registered with one emitter
MaxFiles == 2      \* files of one run_synthesis call
MaxCalls == 3      \* record calls followed over all sessions

\* ------------------------------------------------------- program constants
MinSlides == 3     \* OrderForm.target_slides ge / extractor lower limit
MaxSlides == 50    \* OrderForm.target_slides le / extractor upper limit
DefaultSlides == 10
TopicMinLen == 5   \* len(topic) > 5
FocusMinLen == 3   \* len(focus_item) > 3
MaxOptionalMissing == 2
QABase == 95       \* simulated score 95.0 + (order % 5)
QAMod == 5
max_qa_loops == 3  \* FlowState.max_qa_loops default
MAX_ATTEMPTS == 2  \* RetryBudget.MAX_ATTEMPTS
pass_threshold == 95   \* VISUAL_QA_CONFIG["pass_threshold"]

\* --------------------------------------------------------------- helpers
None == "none"                 \* Python None for optional strings
Nothing == <<>>                \* Python None for optional objects
Some(x) == <<x>>
IsSome(o) == o # <<>>
Get(o) == o[1]

Range(s) == {s[i] : i \in DOMAIN s}

RECURSIVE SeqSum(_)
SeqSum(s) == IF s = <<>> THEN 0 ELSE Head(s) + SeqSum(Tail(s))

RECURSIVE SelectSeqBy(_, _)
\* list comprehension [x for x in s if x \notin drop]
SelectSeqBy(s, drop) ==
    IF s = <<>> THEN <<>>
    ELSE IF Head(s) \in drop THEN SelectSeqBy(Tail(s), drop)
         ELSE <<Head(s)>> \o SelectSeqBy(Tail(s), drop)

\* ---------------------------------------------------------- FlowStatus
SYNTHESIZING == "synthesizing"
AWAITING_CLARIFICATION == "awaiting_clarification"
CLARIFICATION_COMPLETE == "clarification_complete"
AWAITING_OUTLINE_APPROVAL == "awaiting_outline_approval"
OUTLINE_APPROVED == "outline_approved"
GENERATING == "generating"
QA_IN_PROGRESS == "qa_in_progress"
COMPLETED == "completed"
FAILED == "failed"

FlowStatus == {SYNTHESIZING, AWAITING_CLARIFICATION, CLARIFICATION_COMPLETE,
               AWAITING_OUTLINE_APPROVAL, OUTLINE_APPROVED, GENERATING,
               QA_IN_PROGRESS, COMPLETED, FAILED}

\* -------------------------------------------------------- GatheredInfo
\* schemas.py GatheredInfo with its defaults.  slide_count 0 stands for
\* None (the extractor only ever stores 3..50).  The speaker-notes and
\* special-requests slots are never written by any code path and keep
\* their defaults; they are left out.
GatheredInfo ==
    [has_title |-> FALSE, has_audience |-> FALSE, has_slide_count |-> FALSE,
     has_focus_areas |-> FALSE, has_emphasis_style |-> FALSE,
     has_tone |-> FALSE, has_citation_style |-> FALSE,
     has_references_placement |-> FALSE, has_theme |-> FALSE,
     title |-> None, audience |-> None, slide_count |-> 0,
     focus_areas |-> <<>>, key_topics |-> <<>>,
     emphasis_style |-> None, tone |-> None, citation_style |-> None,
     references_placement |-> None, theme |-> None,
     let_agent_decide_title |-> FALSE, let_agent_decide_theme |-> FALSE,
     let_agent_decide_citation |-> FALSE,
     confirmation_sent |-> FALSE, user_confirmed |-> FALSE]

\* a get_missing_required that leaves the focus areas out
get_missing_required_no_focus(info) ==
    (IF ~info.has_title /\ ~info.let_agent_decide_title
        THEN <<"presentation title or topic">> ELSE <<>>)
    \o (IF ~info.has_audience THEN <<"target audience">> ELSE <<>>)
    \o (IF ~info.has_slide_count THEN <<"number of slides">> ELSE <<>>)

get_missing_required(info) ==
    (IF ~info.has_title /\ ~info.let_agent_decide_title
        THEN <<"presentation title or topic">> ELSE <<>>)
    \o (IF ~info.has_audience THEN <<"target audience">> ELSE <<>>)
    \o (IF ~info.has_slide_count THEN <<"number of slides">> ELSE <<>>)
    \o (IF ~info.has_focus_areas
        THEN <<"key focus areas or topics to cover">> ELSE <<>>)

get_missing_optional(info) ==
    (IF ~info.has_emphasis_style THEN <<"emphasis style">> ELSE <<>>)
    \o (IF ~info.has_tone THEN <<"tone">> ELSE <<>>)
    \o (IF ~info.has_citation_style THEN <<"citation style">> ELSE <<>>)
    \o (IF ~info.has_references_placement
        THEN <<"references placement">> ELSE <<>>)
    \o (IF ~info.has_theme /\ ~info.let_agent_decide_theme
        THEN <<"theme preference">> ELSE <<>>)

is_complete_enough(info) == Len(get_missing_required(info)) = 0

is_ready_for_confirmation(info) ==
    /\ Len(get_missing_required(info)) = 0
    /\ Len(get_missing_optional(info)) <= MaxOptionalMissing

needs_confirmation(info) ==
    is_ready_for_confirmation(info) /\ ~info.confirmation_sent

is_fully_confirmed(info) == info.confirmation_sent /\ info.user_confirmed

\* ------------------------------------------------- user messages (cues)
\* A user message is represented by what the extractor's patterns find in
\* it: one field per group of patterns of _extract_info_from_message.
\*   affirm    any confirmation_patterns entry matches
\*   decide    any decide_patterns entry matches
\*   words     which of "title"/"topic", "theme", "citation"/"reference"
\*             occur in the message
\*   audience  value of the first matching audience_patterns entry
\*   audience_stmt  group 2 of the explicit audience regex
\*   counts    group 1 of every matching slide_patterns entry, in order
\*   citation, placement, emphasis, tone, theme
\*             value of the first matching branch of each group
\*   topics    stripped group 1 of every matching topic_patterns entry
\*   focus     every stripped findall match of the focus_patterns
\* Text items are records [text, len].
NoCues ==
    [affirm |-> FALSE, decide |-> FALSE, words |-> {},
     audience |-> None, audience_stmt |-> None, counts |-> <<>>,
     citation |-> None, placement |-> None, emphasis |-> None,
     tone |-> None, theme |-> None, topics |-> <<>>, focus |-> <<>>]

RECURSIVE FirstCountNoUpperLimit(_)
\* a slide_patterns loop that only checks the lower limit
FirstCountNoUpperLimit(counts) ==
    IF counts = <<>> THEN 0
    ELSE IF MinSlides <= Head(counts) THEN Head(counts)
         ELSE FirstCountNoUpperLimit(Tail(counts))

RECURSIVE FirstCountInRange(_)
\* the slide_patterns loop: the first pattern whose number is in range
\* sets the count and breaks; a number out of range falls through
FirstCountInRange(counts) ==
    IF counts = <<>> THEN 0
    ELSE IF MinSlides <= Head(counts) /\ Head(counts) <= MaxSlides
         THEN Head(counts)
         ELSE FirstCountInRange(Tail(counts))

RECURSIVE FirstLongTopic(_)
\* the topic_patterns loop: the first match longer than 5 characters
FirstLongTopic(topics) ==
    IF topics = <<>> THEN None
    ELSE IF Head(topics).len > TopicMinLen THEN Head(topics).text
         ELSE FirstLongTopic(Tail(topics))

RECURSIVE AddFocus(_, _)
AddFocus(info, items) ==
    IF items = <<>> THEN info
    ELSE LET f == Head(items)
             take == f.len > FocusMinLen /\ f.text \notin Range(info.focus_areas)
             next == IF take
                     THEN [info EXCEPT !.focus_areas = Append(@, f.text),
                                       !.has_focus_areas = TRUE]
                     ELSE info
         IN AddFocus(next, Tail(items))

ExtractConfirmation(info, m) ==
    IF info.confirmation_sent /\ m.affirm
    THEN [info EXCEPT !.user_confirmed = TRUE] ELSE info

ExtractDecide(info, m) ==
    IF ~m.decide THEN info
    ELSE LET a == IF "title" \in m.words
                  THEN [info EXCEPT !.let_agent_decide_title = TRUE,
                                    !.has_title = TRUE]
                  ELSE info
             b == IF "theme" \in m.words
                  THEN [a EXCEPT !.let_agent_decide_theme = TRUE,
                                 !.has_theme = TRUE]
                  ELSE a
         IN IF "citation" \in m.words
            THEN [b EXCEPT !.let_agent_decide_citation = TRUE,
                           !.has_citation_style = TRUE]
            ELSE b

ExtractAudience(info, m) ==
    LET a == IF m.audience # None
             THEN [info EXCEPT !.audience = m.audience, !.has_audience = TRUE]
             ELSE info
    IN IF m.audience_stmt # None /\ ~a.has_audience
       THEN [a EXCEPT !.audience = m.audience_stmt, !.has_audience = TRUE]
       ELSE a

\* a slide-count step that clears the slot on a count out of range
ExtractSlideCountClearing(info, m) ==
    LET c == FirstCountInRange(m.counts)
    IN IF c # 0
       THEN [info EXCEPT !.slide_count = c, !.has_slide_count = TRUE]
       ELSE IF m.counts # <<>>
       THEN [info EXCEPT !.slide_count = 0, !.has_slide_count = FALSE]
       ELSE info

ExtractSlideCount(info, m) ==
    LET c == FirstCountInRange(m.counts)
    IN IF c # 0
       THEN [info EXCEPT !.slide_count = c, !.has_slide_count = TRUE]
       ELSE info

ExtractOptional(info, m) ==
    LET a == IF m.citation # None
             THEN [info EXCEPT !.citation_style = m.citation,
                               !.has_citation_style = TRUE]
             ELSE info
        b == IF m.placement # None
             THEN [a EXCEPT !.references_placement = m.placement,
                            !.has_references_placement = TRUE]
             ELSE a
        c == IF m.emphasis # None
             THEN [b EXCEPT !.emphasis_style = m.emphasis,
                            !.has_emphasis_style = TRUE]
             ELSE b
        d == IF m.tone # None
             THEN [c EXCEPT !.tone = m.tone, !.has_tone = TRUE]
             ELSE c
    IN IF m.theme # None
       THEN [d EXCEPT !.theme = m.theme, !.has_theme = TRUE]
       ELSE d

ExtractTopic(info, m) ==
    IF info.has_title \/ info.let_agent_decide_title THEN info
    ELSE LET t == FirstLongTopic(m.topics)
         IN IF t = None THEN info
            ELSE LET a == [info EXCEPT !.title = t, !.has_title = TRUE]
                 IN IF t \in Range(a.focus_areas) THEN a
                    ELSE [a EXCEPT !.focus_areas = Append(@, t),
                                   !.has_focus_areas = TRUE]

\* SlideGenerationFlow._extract_info_from_message, in the order of the code
extract_info_from_message(info, m) ==
    LET a == ExtractConfirmation(info, m)
        b == ExtractDecide(a, m)
        c == ExtractAudience(b, m)
        d == ExtractSlideCount(c, m)
        e == ExtractOptional(d, m)
        f == ExtractTopic(e, m)
    IN AddFocus(f, m.focus)


\* ------------------------------------------------------------ OrderForm
\* schemas.py OrderForm() with its defaults (the fields no code path of the
\* flow writes are left out)
OrderForm ==
    [theme_id |-> "modern", citation_style |-> "apa", tone |-> "academic",
     target_audience |-> "General academic", target_slides |-> DefaultSlides,
     presentation_title |-> "", key_topics |-> <<>>, focus_areas |-> <<>>,
     emphasis_style |-> "detailed", references_placement |-> "distributed",
     is_complete |-> FALSE, clarification_notes |-> ""]

\* Python `x or d` on an optional string / an optional count
OrStr(x, d) == IF x = None \/ x = "" THEN d ELSE x
OrInt(x, d) == IF x = 0 THEN d ELSE x

\* the OrderForm built from the gathered info once the user has confirmed
\* (process_clarification and the confirm endpoint build the same form)
ConfirmedOrderForm(info) ==
    [OrderForm EXCEPT
       !.presentation_title = OrStr(info.title, "Untitled Presentation"),
       !.target_audience = OrStr(info.audience, "General audience"),
       !.target_slides = OrInt(info.slide_count, DefaultSlides),
       !.focus_areas = info.focus_areas,
       !.key_topics = info.key_topics,
       !.tone = OrStr(info.tone, "academic"),
       !.emphasis_style = OrStr(info.emphasis_style, "detailed"),
       !.citation_style = OrStr(info.citation_style, "apa"),
       !.references_placement = OrStr(info.references_placement, "last_slide"),
       !.theme_id = OrStr(info.theme, "modern"),
       !.is_complete = TRUE]

\* _parse_order_form.  json is what OrderForm(**data) gives for the JSON
\* object found in the reply, or Nothing when no object is found, it does
\* not parse, or it fails validation (ValueError): then the fallback form
\* is built from the gathered info.
parse_order_form(json, info) ==
    IF IsSome(json) THEN Get(json)
    ELSE [OrderForm EXCEPT
            !.presentation_title = OrStr(info.title, "Untitled"),
            !.target_audience = OrStr(info.audience, "General academic"),
            !.target_slides = OrInt(info.slide_count, DefaultSlides),
            !.focus_areas = info.focus_areas,
            !.key_topics = info.key_topics,
            !.is_complete = FALSE]

merge_gathered_info(form, info) ==
    [form EXCEPT
       !.presentation_title =
           IF @ = "" /\ info.title # None THEN info.title ELSE @,
       !.target_audience =
           IF @ = "General academic" /\ info.audience # None
           THEN info.audience ELSE @,
       !.target_slides =
           IF @ = DefaultSlides /\ info.slide_count # 0
           THEN info.slide_count ELSE @,
       !.focus_areas =
           IF @ = <<>> /\ info.focus_areas # <<>> THEN info.focus_areas ELSE @,
       !.key_topics =
           IF @ = <<>> /\ info.key_topics # <<>> THEN info.key_topics ELSE @,
       !.emphasis_style =
           IF info.emphasis_style # None THEN info.emphasis_style ELSE @,
       !.tone = IF info.tone # None THEN info.tone ELSE @,
       !.citation_style =
           IF info.citation_style # None THEN info.citation_style ELSE @,
       !.references_placement =
           IF info.references_placement # None
           THEN info.references_placement ELSE @,
       !.theme_id = IF info.theme # None THEN info.theme ELSE @]

\* ------------------------------------------------------------- Skeleton
SlideContentType ==
    {"title", "overview", "content", "diagram", "equation", "image",
     "quote", "two_column", "section", "conclusion"}

\* A slide is an object: id is its identity (two list positions with the
\* same id are the same Python object), the rest are SkeletonSlide fields.
SkeletonSlide(id, order, title, content_type, description) ==
    [id |-> id, order |-> order, title |-> title,
     content_type |-> content_type, description |-> description]

\* topics[:slide_count - 2]
TopicsFor(form) ==
    LET topics == IF form.key_topics = <<>> THEN <<"Main Topic">>
                  ELSE form.key_topics
        n == form.target_slides - 2
        k == IF n >= Len(topics) THEN Len(topics) ELSE IF n < 0 THEN 0 ELSE n
    IN SubSeq(topics, 1, k)

\* the slide list generate_outline builds from a complete order form
OutlineSlides(form) ==
    LET topics == TopicsFor(form)
        k == Len(topics)
    IN <<SkeletonSlide(1, 1, form.presentation_title, "title", "title slide")>>
       \o [i \in 1..k |->
             SkeletonSlide(i + 1, i + 1, topics[i], "content", "content slide")]
       \o <<SkeletonSlide(k + 2, k + 2, "Conclusion", "conclusion",
                          "Summary and key takeaways")>>

Skeleton(form) ==
    [presentation_title |-> form.presentation_title,
     target_audience |-> form.target_audience,
     slides |-> OutlineSlides(form)]


\* ------------------------------------------- approve_outline modifications
\* A modification is the dict of the request; an absent key is Nothing.
AddMod(order, content_type) ==
    [action |-> "add", order |-> order, title |-> Nothing,
     content_type |-> content_type, new_order |-> <<>>]
RemoveMod(order) ==
    [action |-> "remove", order |-> order, title |-> Nothing,
     content_type |-> "content", new_order |-> <<>>]
ModifyMod(order, title) ==
    [action |-> "modify", order |-> order, title |-> title,
     content_type |-> "content", new_order |-> <<>>]
ReorderMod(new_order) ==
    [action |-> "reorder", order |-> Nothing, title |-> Nothing,
     content_type |-> "content", new_order |-> new_order]

\* The slide objects of a list (id -> object) and the list as references.
HeapOf(slides) ==
    [x \in {slides[i].id : i \in DOMAIN slides} |->
        slides[CHOOSE i \in DOMAIN slides : slides[i].id = x]]
IdsOf(slides) == [i \in DOMAIN slides |-> slides[i].id]
SlidesOf(ids, heap) == [i \in DOMAIN ids |-> heap[ids[i]]]

Min(S) == CHOOSE x \in S : \A y \in S : x <= y
Max(S) == CHOOSE x \in S : \A y \in S : x >= y

\* positions of the list whose slide has the given order value
Matching(ids, heap, order) ==
    {i \in DOMAIN ids : IsSome(order) /\ heap[ids[i]].order = Get(order)}

\* action == "add": SkeletonSlide(...) validates order >= 1 and
\* SlideContentType(...) the content type; either failure raises
ApplyAdd(w, mod) ==
    LET order == IF IsSome(mod.order) THEN Get(mod.order) ELSE Len(w.ids) + 1
        title == IF IsSome(mod.title) THEN Get(mod.title) ELSE "New Slide"
    IN IF order < 1 \/ mod.content_type \notin SlideContentType
       THEN [w EXCEPT !.raised = TRUE]
       ELSE [w EXCEPT
               !.heap = @ @@ (w.next :>
                   SkeletonSlide(w.next, order, title, mod.content_type, "")),
               !.ids = Append(@, w.next),
               !.next = @ + 1]

\* a remove that raises when no slide has the order value
ApplyRemoveStrict(w, mod) ==
    IF Matching(w.ids, w.heap, mod.order) = {}
    THEN [w EXCEPT !.raised = TRUE]
    ELSE [w EXCEPT !.ids = SelectSeqBy(@,
             {w.ids[i] : i \in Matching(w.ids, w.heap, mod.order)})]

\* action == "remove": [s for s in slides if s.order != order_to_remove]
ApplyRemove(w, mod) ==
    [w EXCEPT !.ids = SelectSeqBy(@,
        {w.ids[i] : i \in Matching(w.ids, w.heap, mod.order)})]

\* action == "modify": patch the first slide with the order value, break
ApplyModify(w, mod) ==
    LET hits == Matching(w.ids, w.heap, mod.order)
    IN IF hits = {} THEN w
       ELSE LET x == w.ids[Min(hits)]
            IN [w EXCEPT !.heap[x].title =
                           IF IsSome(mod.title) THEN Get(mod.title) ELSE @]

RECURSIVE ReorderLoop(_, _, _, _, _)
\* for i, order in enumerate(new_order, start=1): the first slide of the
\* current list whose order equals `order` gets order i (in place) and is
\* appended to ordered_slides
ReorderLoop(ids, heap, new_order, i, ordered_slides) ==
    IF i > Len(new_order) THEN [ids |-> ordered_slides, heap |-> heap]
    ELSE LET hits == Matching(ids, heap, Some(new_order[i]))
         IN IF hits = {}
            THEN ReorderLoop(ids, heap, new_order, i + 1, ordered_slides)
            ELSE LET x == ids[Min(hits)]
                 IN ReorderLoop(ids, [heap EXCEPT ![x].order = i], new_order,
                                i + 1, Append(ordered_slides, x))

\* action == "reorder"
ApplyReorder(w, mod) ==
    IF mod.new_order = <<>> THEN w
    ELSE LET r == ReorderLoop(w.ids, w.heap, mod.new_order, 1, <<>>)
         IN [w EXCEPT !.ids = r.ids, !.heap = r.heap]

ApplyMod(w, mod) ==
    CASE mod.action = "add" -> ApplyAdd(w, mod)
      [] mod.action = "remove" -> ApplyRemove(w, mod)
      [] mod.action = "modify" -> ApplyModify(w, mod)
      [] mod.action = "reorder" -> ApplyReorder(w, mod)
      [] OTHER -> w

RECURSIVE ApplyMods(_, _)
\* for mod in modifications: ... ; an exception ends the loop
ApplyMods(w, mods) ==
    IF mods = <<>> \/ w.raised THEN w
    ELSE ApplyMods(ApplyMod(w, Head(mods)), Tail(mods))

RECURSIVE RenumberLoop(_, _, _)
RenumberLoop(ids, heap, i) ==
    IF i > Len(ids) THEN heap
    ELSE RenumberLoop(ids, [heap EXCEPT ![ids[i]].order = i], i + 1)

\* a renumbering that was forgotten
RenumberSkipped(w) == w

\* for i, slide in enumerate(skeleton.slides, start=1): slide.order = i
Renumber(w) == [w EXCEPT !.heap = RenumberLoop(w.ids, w.heap, 1)]

\* The body of approve_outline on the slide list: the list after the call
\* and whether the call raised (then the list is as the exception left it).
ModifiedSlides(slides, mods) ==
    LET w0 == [ids |-> IdsOf(slides), heap |-> HeapOf(slides),
               next |-> Max({0} \cup {slides[i].id : i \in DOMAIN slides}) + 1,
               raised |-> FALSE]
        w1 == ApplyMods(w0, mods)
        w2 == IF w1.raised \/ mods = <<>> THEN w1 ELSE Renumber(w1)
    IN [slides |-> SlidesOf(w2.ids, w2.heap), raised |-> w2.raised]


\* ---------------------------------------------------------------- inputs
TopicNames == <<"topic a", "topic b", "topic c", "topic d">>

MsgFull ==
    [NoCues EXCEPT
       !.topics = <<[text |-> "renewable energy", len |-> 16]>>,
       !.audience = "university students",
       !.counts = <<10>>,
       !.focus = <<[text |-> "solar and wind", len |-> 14]>>]
MsgYes == [NoCues EXCEPT !.affirm = TRUE]
MsgOptional ==
    [NoCues EXCEPT !.citation = "ieee", !.tone = "casual",
                   !.emphasis = "concise"]
MsgTooManySlides == [NoCues EXCEPT !.counts = <<100>>]

\* the user messages sent to /clarify
Messages == {MsgFull, MsgYes, MsgOptional, MsgTooManySlides}

\* the user messages of the clarification phase taken alone
MsgOther ==
    [NoCues EXCEPT
       !.topics = <<[text |-> "machine learning", len |-> 16]>>,
       !.audience = "executives",
       !.counts = <<20>>,
       !.citation = "harvard", !.tone = "technical",
       !.emphasis = "visual-heavy", !.theme = "dark"]
MsgDecide ==
    [NoCues EXCEPT !.decide = TRUE, !.words = {"title", "theme", "citation"}]
MsgAudienceStmt == [NoCues EXCEPT !.audience_stmt = "the board"]
MsgNoise ==
    [NoCues EXCEPT !.topics = <<[text |-> "ai", len |-> 2]>>,
                   !.focus = <<[text |-> "ml", len |-> 2],
                               [text |-> "solar and wind", len |-> 14]>>]

ExtractMessages ==
    {MsgFull, MsgYes, MsgTooManySlides, MsgOther, MsgDecide, MsgAudienceStmt,
     MsgNoise}

\* What the clarifier agent's reply is to the flow:
\*   raises         crew.kickoff() raised
\*   confirm_req    a confirmation_request_patterns entry matches
\*   order_form     _looks_like_order_form(response_text)
\*   json           the OrderForm its JSON object validates to, if any
\*   text           the reply text (stored as clarification_notes)
AgentReply(raises, confirm_req, looks, json, text) ==
    [raises |-> raises, confirm_req |-> confirm_req, order_form |-> looks,
     json |-> json, text |-> text]

AgentForms ==
    {[OrderForm EXCEPT !.presentation_title = "agent title",
                       !.key_topics = SubSeq(TopicNames, 1, k)] :
        k \in 0..MaxTopics}

AgentReplies ==
    {AgentReply(TRUE, FALSE, FALSE, Nothing, ""),
     AgentReply(FALSE, FALSE, FALSE, Nothing, "question"),
     AgentReply(FALSE, TRUE, FALSE, Nothing, "does this look correct"),
     AgentReply(FALSE, FALSE, TRUE, Nothing, "presentation_title theme_id")}
    \cup {AgentReply(FALSE, FALSE, TRUE, Some(f), "order form json") :
            f \in AgentForms}

\* every total ordering of the order values 1..n
NewOrders(n) ==
    {p \in [1..n -> 1..n] : \A i, j \in 1..n : p[i] = p[j] => i = j}

\* the modifications tried on an outline of n slides
Mods(n) ==
    {AddMod(Nothing, "content"), AddMod(Some(1), "content"),
     AddMod(Some(0), "content"), AddMod(Nothing, "bogus")}
    \cup {RemoveMod(Some(k)) : k \in 1..(n + 1)}
    \cup {RemoveMod(Nothing)}
    \cup {ModifyMod(Some(k), Some("Edited")) : k \in 1..(n + 1)}
    \cup {ReorderMod(p) : p \in NewOrders(n)}
    \cup {ReorderMod(<<>>), ReorderMod(<<1>>)}

RECURSIVE ModLists(_, _)
\* the modification lists of length <= len over Mods(n)
ModLists(n, len) ==
    IF len = 0 THEN {<<>>}
    ELSE LET shorter == ModLists(n, len - 1)
         IN shorter \cup
            {<<m>> \o l : m \in Mods(n),
                          l \in {x \in shorter : Len(x) = len - 1}}

\* what the planner stage gives: "raise" (crew.kickoff() raised),
\* "fallback" (no usable JSON: the plan is built from the skeleton), or the
\* slide list of the JSON the agent returned
PlannedSlide(order, title) == [order |-> order, title |-> title]
PlannerOutputs ==
    {<<>>, <<PlannedSlide(1, "only slide")>>,
     <<PlannedSlide(2, "second"), PlannedSlide(1, "first")>>,
     [i \in 1..5 |-> PlannedSlide(i, "planned")]}


\* ------------------------------------------------------------ RetryBudget
\* the agents of the generation stages
StageNames == {"planner", "refiner", "generator", "visual_qa"}

\* RetryBudget(): attempts = {}
RetryBudget == [a \in {} |-> 0]

\* `if agent_name:` of reset
Truthy(agent_name) == agent_name # None /\ agent_name # ""

get_attempts(attempts, agent_name) ==
    IF agent_name \in DOMAIN attempts THEN attempts[agent_name] ELSE 0

can_retry(attempts, agent_name) ==
    get_attempts(attempts, agent_name) < MAX_ATTEMPTS

\* a record_attempt that stores 1 instead of counting up
record_attempt_once(attempts, agent_name) ==
    [a \in DOMAIN attempts \cup {agent_name} |->
        IF a = agent_name THEN 1 ELSE attempts[a]]

record_attempt(attempts, agent_name) ==
    [a \in DOMAIN attempts \cup {agent_name} |->
        IF a = agent_name THEN get_attempts(attempts, agent_name) + 1
        ELSE attempts[a]]

reset(attempts, agent_name) ==
    IF Truthy(agent_name)
    THEN [a \in DOMAIN attempts \ {agent_name} |-> attempts[a]]
    ELSE RetryBudget

\* ------------------------------------------------------------ Helper agent
FailureTypes ==
    {"malformed_output", "missing_content", "qa_loop_exceeded",
     "render_failed", "citation_broken", "context_lost"}

HelperActions == {"direct_fix", "rerun_with_guardrails", "escalate"}

FailureContext(failing_agent, failure_type, previous_attempts) ==
    [failing_agent |-> failing_agent, failure_type |-> failure_type,
     previous_attempts |-> previous_attempts]

\* the HelperDecision the helper agent's reply validates to: `action` is
\* any of the three strings the prompt names
HelperDecision(action) == [action |-> action]

NoDecision ==
    [made |-> FALSE, context |-> FailureContext("", "", 0),
     decision |-> HelperDecision("")]


\* ----------------------------------------------------------------- state
VARIABLES
    \* FlowState of the session in _sessions (one shared object)
    status, current_stage, error_message,
    gathered_info, order_form, skeleton,
    planned_content, refined_content, generated_presentation,
    qa_report, knowledge_base,
    qa_loops, slides_completed, total_slides,
    \* background tasks added by start_generation, by task id:
    \* "unused", "scheduled", "gather" (suspended in asyncio.gather), "done"
    task_pc,
    task_slides,     \* the refined slides a suspended run is generating
    task_done,       \* how many of them its slide tasks have finished
    \* the answer to the latest request: [op, code]
    response,
    \* the latest approve_outline call: its list, the slides before it,
    \* and whether it raised
    last_approve,
    \* a flow state put through to_db_dict and from_db, with its original
    restored,
    \* the event types the flow's emitter emitted in the latest step
    emitted,
    \* retry_tracker.attempts of the flow object of the latest runner call
    retry_tracker,
    \* the latest HelperDecision asked for a failure, with the attempt
    \* count of the stage when it was asked
    helper_decision,
    \* how many record_attempt calls each stage has had since it was reset
    recorded,
    \* what run_generation emitted and stored so far, in program order
    run_events,
    \* the user messages at the end of state.conversation_history (its last
    \* two, which ClarifyRecorded keeps)
    last_messages,
    \* FlowEventEmitter.listeners of an emitter with registered listeners,
    \* and what its latest emit call did
    listeners, last_emit,
    \* the event_generator of a /stream/{id} connection
    stream,
    \* a run_synthesis call of the session's flow: where it stands, its
    \* file_paths with what SynthesisTool._run returns for each, its locals
    synth,
    \* MetricsCollector._instances: session id -> SessionMetrics
    metrics_instances,
    \* a poll_research_status call: its arguments, locals and return value
    poll

flowVars ==
    <<status, current_stage, error_message, gathered_info, order_form,
      skeleton, planned_content, refined_content, generated_presentation,
      qa_report, knowledge_base, qa_loops, slides_completed, total_slides>>
taskVars == <<task_pc, task_slides, task_done>>
helperVars == <<retry_tracker, helper_decision, recorded>>
emitVars == <<listeners, last_emit>>
serviceVars == <<synth, metrics_instances, poll>>
vars ==
    <<flowVars, taskVars, response, last_approve, restored, emitted,
      helperVars, run_events, last_messages, emitVars, stream,
      serviceVars>>

session_id == "session-1"
Tasks == 1..MaxTasks

Response(op, code) == [op |-> op, code |-> code]
NoApprove == [called |-> FALSE, mods |-> <<>>, before |-> <<>>, raised |-> FALSE]
NoneRecorded == [a \in StageNames |-> 0]

\* SlideGenerationFlow(session_id=...) of a runner: a flow object of its
\* own, with a RetryBudget of its own
NewFlow ==
    /\ retry_tracker' = RetryBudget
    /\ recorded' = NoneRecorded
    /\ UNCHANGED helper_decision

\* an entry of run_events: an emitter call of run_generation
\* (stage_start, stage_complete, slide_progress, error, complete) or the
\* assignment of a stage's output to the flow state ("stored")
Event(type, stage) == [type |-> type, stage |-> stage]

\* FlowEventEmitter(session_id): listeners = []; no emit call made yet
NoEmit ==
    [made |-> FALSE, type |-> None, listeners |-> <<>>, delivered |-> <<>>,
     raised |-> FALSE]

\* no /stream/{id} connection
NoStream ==
    [pc |-> "closed", last_stage |-> None, last_slides |-> 0, sent |-> <<>>]

\* no run_synthesis call
NoSynthesis ==
    [pc |-> "idle", file_paths |-> <<>>, i |-> 0, returned |-> <<>>,
     all_sections |-> <<>>, combined_summary_parts |-> <<>>]

\* no poll_research_status call
NoPoll ==
    [pc |-> "idle", max_wait_seconds |-> 0, poll_interval |-> 0,
     elapsed |-> 0, current_interval |-> 0, slept |-> 0,
     reply |-> Nothing, result |-> None]

NothingObserved ==
    /\ run_events = <<>>
    /\ last_messages = <<>>
    /\ listeners = <<>>
    /\ last_emit = NoEmit
    /\ stream = NoStream
    /\ synth = NoSynthesis
    /\ metrics_instances = <<>>
    /\ poll = NoPoll

\* FlowState(session_id=...) as start_session stores it
Init ==
    /\ status = AWAITING_CLARIFICATION
    /\ current_stage = "clarifier"
    /\ error_message = None
    /\ gathered_info = Nothing
    /\ order_form = Nothing
    /\ skeleton = Nothing
    /\ planned_content = Nothing
    /\ refined_content = Nothing
    /\ generated_presentation = Nothing
    /\ qa_report = Nothing
    /\ knowledge_base = Nothing
    /\ qa_loops = 0
    /\ slides_completed = 0
    /\ total_slides = 0
    /\ task_pc = [t \in Tasks |-> "unused"]
    /\ task_slides = [t \in Tasks |-> <<>>]
    /\ task_done = [t \in Tasks |-> 0]
    /\ response = Response("start", 200)
    /\ last_approve = NoApprove
    /\ restored = Nothing
    /\ emitted = {}
    /\ retry_tracker = RetryBudget
    /\ helper_decision = NoDecision
    /\ recorded = NoneRecorded
    /\ NothingObserved

\* a request turned away by the handler's status check: HTTPException(400)
Rejected(op) ==
    /\ response' = Response(op, 400)
    /\ emitted' = {}
    /\ UNCHANGED <<flowVars, taskVars, last_approve, restored, helperVars,
                   run_events, last_messages, emitVars, stream,
                   serviceVars>>

\* ---------------------------------------------------- POST /clarify/{id}
\* clarify_session -> process_clarification, for message m and agent reply r
ClarifyWith(m, r) ==
    LET info0 == IF IsSome(gathered_info) THEN Get(gathered_info)
                 ELSE GatheredInfo
        info1 == extract_info_from_message(info0, m)
        info2 == [info1 EXCEPT !.confirmation_sent = @ \/ r.confirm_req]
        parsed == [parse_order_form(r.json, info2) EXCEPT !.is_complete = TRUE]
        old == IF IsSome(order_form) THEN Get(order_form) ELSE OrderForm
    IN IF is_fully_confirmed(info1)
       THEN \* the user confirmed: the agent is skipped
            /\ gathered_info' = Some(info1)
            /\ order_form' = Some(ConfirmedOrderForm(info1))
            /\ status' = CLARIFICATION_COMPLETE
            /\ response' = Response("clarify", 200)
            /\ emitted' = {"stage_start", "stage_complete"}
       ELSE IF r.raises
       THEN \* emitter.error, re-raised, HTTPException(500)
            /\ gathered_info' = Some(info1)
            /\ response' = Response("clarify", 500)
            /\ emitted' = {"stage_start", "error"}
            /\ UNCHANGED <<order_form, status>>
       ELSE IF r.order_form
       THEN \* the reply looks like an OrderForm
            /\ gathered_info' = Some(info2)
            /\ order_form' = Some(merge_gathered_info(parsed, info2))
            /\ status' = CLARIFICATION_COMPLETE
            /\ response' = Response("clarify", 200)
            /\ emitted' = {"stage_start", "stage_complete"}
       ELSE \* a follow-up question
            /\ gathered_info' = Some(info2)
            /\ order_form' = Some([old EXCEPT !.clarification_notes = r.text])
            /\ response' = Response("clarify", 200)
            /\ emitted' = {"stage_start"}
            /\ UNCHANGED status

Clarify ==
    IF status # AWAITING_CLARIFICATION THEN Rejected("clarify")
    ELSE \E m \in Messages, r \in AgentReplies :
             /\ ClarifyWith(m, r)
             /\ NewFlow
             /\ UNCHANGED <<current_stage, error_message, skeleton,
                            planned_content, refined_content,
                            generated_presentation, qa_report, knowledge_base,
                            qa_loops, slides_completed, total_slides,
                            taskVars, last_approve, restored,
                            run_events, last_messages, emitVars, stream,
                   serviceVars>>

\* the last two entries of a sequence
LastTwo(s) == IF Len(s) <= 2 THEN s ELSE SubSeq(s, Len(s) - 1, Len(s))

\* POST /clarify/{id} with any message of ExtractMessages, in the
\* clarification phase
ClarifyRecorded ==
    /\ status = AWAITING_CLARIFICATION
    /\ \E m \in ExtractMessages, r \in AgentReplies :
          /\ ClarifyWith(m, r)
          /\ last_messages' = LastTwo(Append(last_messages, m))
          /\ NewFlow
          /\ UNCHANGED <<current_stage, error_message, skeleton,
                         planned_content, refined_content,
                         generated_presentation, qa_report, knowledge_base,
                         qa_loops, slides_completed, total_slides,
                         taskVars, last_approve, restored,
                         run_events, emitVars, stream,
                   serviceVars>>

\* ---------------------------------------------------- POST /confirm/{id}
Confirm ==
    IF \/ status # AWAITING_CLARIFICATION
       \/ ~IsSome(gathered_info)
       \/ ~is_complete_enough(Get(gathered_info))
    THEN Rejected("confirm")
    ELSE LET info == [Get(gathered_info) EXCEPT !.user_confirmed = TRUE]
         IN /\ gathered_info' = Some(info)
            /\ order_form' = Some(ConfirmedOrderForm(info))
            /\ status' = CLARIFICATION_COMPLETE
            /\ response' = Response("confirm", 200)
            /\ emitted' = {}
            /\ UNCHANGED <<current_stage, error_message, skeleton,
                           planned_content, refined_content,
                           generated_presentation, qa_report, knowledge_base,
                           qa_loops, slides_completed, total_slides,
                           taskVars, last_approve, restored, helperVars,
                   run_events, last_messages, emitVars, stream,
                   serviceVars>>

\* ---------------------------------------------------- POST /outline/{id}
\* a generate_outline that writes its default topic list into the order form
GetOutlineFillsTopics ==
    IF status # CLARIFICATION_COMPLETE THEN Rejected("outline")
    ELSE IF ~IsSome(order_form) \/ ~Get(order_form).is_complete
    THEN /\ response' = Response("outline", 500)
         /\ emitted' = {"stage_start"}
         /\ NewFlow
         /\ UNCHANGED <<flowVars, taskVars, last_approve, restored,
                        run_events, last_messages, emitVars, stream,
                   serviceVars>>
    ELSE /\ skeleton' = Some(Skeleton(Get(order_form)))
         /\ order_form' =
               Some([Get(order_form) EXCEPT
                       !.key_topics = IF @ = <<>> THEN <<"Main Topic">> ELSE @])
         /\ status' = AWAITING_OUTLINE_APPROVAL
         /\ total_slides' = Len(OutlineSlides(Get(order_form)))
         /\ response' = Response("outline", 200)
         /\ emitted' = {"stage_start", "pause"}
         /\ NewFlow
         /\ UNCHANGED <<current_stage, error_message, gathered_info,
                        planned_content, refined_content,
                        generated_presentation, qa_report, knowledge_base,
                        qa_loops, slides_completed, taskVars, last_approve,
                        restored, run_events, last_messages, emitVars, stream,
                   serviceVars>>

\* get_outline -> generate_outline
GetOutline ==
    IF status # CLARIFICATION_COMPLETE THEN Rejected("outline")
    ELSE IF ~IsSome(order_form) \/ ~Get(order_form).is_complete
    THEN \* ValueError("Cannot generate outline..."), HTTPException(500)
         /\ response' = Response("outline", 500)
         /\ emitted' = {"stage_start"}
         /\ NewFlow
         /\ UNCHANGED <<flowVars, taskVars, last_approve, restored,
                   run_events, last_messages, emitVars, stream,
                   serviceVars>>
    ELSE /\ skeleton' = Some(Skeleton(Get(order_form)))
         /\ status' = AWAITING_OUTLINE_APPROVAL
         /\ total_slides' = Len(OutlineSlides(Get(order_form)))
         /\ response' = Response("outline", 200)
         /\ emitted' = {"stage_start", "pause"}
         /\ NewFlow
         /\ UNCHANGED <<current_stage, error_message, gathered_info,
                        order_form, planned_content, refined_content,
                        generated_presentation, qa_report, knowledge_base,
                        qa_loops, slides_completed, taskVars, last_approve,
                        restored,
                   run_events, last_messages, emitVars, stream,
                   serviceVars>>

\* -------------------------------------------- POST /approve-outline/{id}
\* approve_outline_endpoint -> approve_outline with a list out of `lists`
ApproveOutline(lists) ==
    IF status # AWAITING_OUTLINE_APPROVAL THEN Rejected("approve")
    ELSE \E mods \in lists :
             LET before == Get(skeleton).slides
                 r == ModifiedSlides(before, mods)
             IN /\ skeleton' = Some([Get(skeleton) EXCEPT !.slides = r.slides])
                /\ last_approve' = [called |-> TRUE, mods |-> mods,
                                    before |-> before, raised |-> r.raised]
                /\ IF r.raised
                   THEN /\ response' = Response("approve", 500)
                        /\ emitted' = {}
                        /\ UNCHANGED <<status, total_slides>>
                   ELSE /\ status' = OUTLINE_APPROVED
                        /\ total_slides' = Len(r.slides)
                        /\ response' = Response("approve", 200)
                        /\ emitted' = {"stage_complete"}
                /\ NewFlow
                /\ UNCHANGED <<current_stage, error_message, gathered_info,
                               order_form, planned_content, refined_content,
                               generated_presentation, qa_report,
                               knowledge_base, qa_loops, slides_completed,
                               taskVars, restored,
                   run_events, last_messages, emitVars, stream,
                   serviceVars>>


\* ---------------------------------------------------- generation pipeline
PlannerResults ==
    {[kind |-> "raise", slides |-> <<>>], [kind |-> "fallback", slides |-> <<>>]}
    \cup {[kind |-> "json", slides |-> sl] : sl \in PlannerOutputs}

\* _parse_planned_content: the agent's slides, or the skeleton's
parse_planned_content(p, sk, form) ==
    [presentation_title |-> sk.presentation_title,
     target_audience |-> sk.target_audience,
     theme_id |-> form.theme_id,
     citation_style |-> form.citation_style,
     slides |-> IF p.kind = "json" THEN p.slides
                ELSE [i \in DOMAIN sk.slides |->
                        PlannedSlide(sk.slides[i].order, sk.slides[i].title)]]

\* _refine_slide keeps order and title; _run_refiner keeps the sequence
RefinedContent(planned) ==
    [presentation_title |-> planned.presentation_title,
     target_audience |-> planned.target_audience,
     theme_id |-> planned.theme_id,
     citation_style |-> planned.citation_style,
     slides |-> [i \in DOMAIN planned.slides |->
                   [order |-> planned.slides[i].order,
                    title |-> planned.slides[i].title]]]

\* _run_generator after gather: one GeneratedSlide per refined slide
GeneratedPresentation(refined, slides) ==
    [title |-> refined.presentation_title,
     theme_id |-> refined.theme_id,
     slides |-> [i \in DOMAIN slides |->
                   [order |-> slides[i].order, title |-> slides[i].title]],
     total_slides |-> Len(slides)]

\* a _run_qa that reports an average of 0 for a presentation without
\* slides instead of dividing by zero
QAReportOfNoSlides(presentation, loops) ==
    LET scores == [i \in DOMAIN presentation.slides |->
                     QABase + (presentation.slides[i].order % QAMod)]
    IN Some([average_score |-> [sum |-> SeqSum(scores),
                                count |-> Max({Len(scores), 1})],
             all_passed |-> TRUE,
             total_iterations |-> loops,
             slides |-> scores])

\* a _run_qa whose simulated score leaves out the 95.0
QAReportNoBase(presentation, loops) ==
    LET scores == [i \in DOMAIN presentation.slides |->
                     presentation.slides[i].order % QAMod]
    IN IF Len(scores) = 0 THEN Nothing
       ELSE Some([average_score |-> [sum |-> SeqSum(scores),
                                     count |-> Len(scores)],
                  all_passed |-> TRUE,
                  total_iterations |-> loops,
                  slides |-> scores])

\* _run_qa: the report, or Nothing when avg_score divides by zero
QAReport(presentation, loops) ==
    LET scores == [i \in DOMAIN presentation.slides |->
                     QABase + (presentation.slides[i].order % QAMod)]
    IN IF Len(scores) = 0 THEN Nothing
       ELSE Some([average_score |-> [sum |-> SeqSum(scores),
                                     count |-> Len(scores)],
                  all_passed |-> TRUE,
                  total_iterations |-> loops,
                  slides |-> scores])

\* the except branch of run_generation followed by the one of
\* _run_generation_task: both store FAILED and str(e)
MarkFailed(t, message) ==
    /\ status' = FAILED
    /\ error_message' = message
    /\ task_pc' = [task_pc EXCEPT ![t] = "done"]

\* a run that goes back for another QA pass while qa_loops <= max_qa_loops
CompleteRunLooping(t, refined, slides) ==
    LET presentation == GeneratedPresentation(refined, slides)
        report == QAReport(presentation, qa_loops + 1)
    IN /\ generated_presentation' = Some(presentation)
       /\ current_stage' = "visual_qa"
       /\ qa_loops' = qa_loops + 1
       /\ IF qa_loops <= max_qa_loops
          THEN /\ emitted' = {"stage_complete", "stage_start"}
               /\ UNCHANGED <<qa_report, status, task_pc, error_message>>
          ELSE /\ qa_report' = report
               /\ status' = COMPLETED
               /\ task_pc' = [task_pc EXCEPT ![t] = "done"]
               /\ emitted' = {"stage_complete", "stage_start", "complete"}
               /\ UNCHANGED error_message

\* _run_generator from the return of gather to the end of run_generation
\* (_run_qa, COMPLETED) and save_session
CompleteRun(t, refined, slides) ==
    LET presentation == GeneratedPresentation(refined, slides)
        report == QAReport(presentation, qa_loops + 1)
    IN /\ generated_presentation' = Some(presentation)
       /\ current_stage' = "visual_qa"
       /\ qa_loops' = qa_loops + 1
       /\ IF IsSome(report)
          THEN /\ qa_report' = report
               /\ status' = COMPLETED
               /\ task_pc' = [task_pc EXCEPT ![t] = "done"]
               /\ emitted' = {"stage_complete", "stage_start", "complete"}
               /\ UNCHANGED error_message
          ELSE /\ MarkFailed(t, "division by zero")
               /\ emitted' = {"stage_complete", "stage_start", "error"}
               /\ UNCHANGED qa_report

\* ------------------------------------ the run's events, in program order
\* a _run_planner that does not assign state.planned_content
PlannerEventsNotStored(raises) ==
    <<Event("stage_start", "planner")>>
    \o (IF raises THEN <<Event("error", "planner")>>
        ELSE <<Event("stage_complete", "planner")>>)

\* _run_planner; when crew.kickoff() raises, run_generation's except
\* branch emits the error with current_stage
PlannerEvents(raises) ==
    <<Event("stage_start", "planner")>>
    \o (IF raises THEN <<Event("error", "planner")>>
        ELSE <<Event("stored", "planner"), Event("stage_complete", "planner")>>)

\* _run_refiner: one slide_progress per planned slide
RefinerEvents(planned_slides, raises) ==
    <<Event("stage_start", "refiner")>>
    \o (IF raises THEN <<Event("error", "refiner")>>
        ELSE [i \in DOMAIN planned_slides |->
                Event("slide_progress", "refiner")]
             \o <<Event("stored", "refiner"),
                  Event("stage_complete", "refiner")>>)

\* _run_generator up to gather; one slide task; after gather
GeneratorStartEvents == <<Event("stage_start", "generator")>>
SlideTaskEvents == <<Event("slide_progress", "generator")>>
GeneratorEndEvents ==
    <<Event("stored", "generator"), Event("stage_complete", "generator")>>

\* _run_qa and the end of run_generation
QAEvents(report) ==
    <<Event("stage_start", "visual_qa")>>
    \o (IF IsSome(report)
        THEN <<Event("stored", "visual_qa"),
               Event("stage_complete", "visual_qa"),
               Event("complete", None)>>
        ELSE <<Event("error", "visual_qa")>>)

\* what CompleteRun emits and stores
CompletionEvents(refined, slides) ==
    GeneratorEndEvents
    \o QAEvents(QAReport(GeneratedPresentation(refined, slides), qa_loops + 1))

\* ---------------------------------------------------- POST /generate/{id}
\* start_generation: background_tasks.add_task(_run_generation_task, ...)
StartGeneration ==
    IF status # OUTLINE_APPROVED THEN Rejected("generate")
    ELSE /\ \E t \in Tasks : task_pc[t] = "unused"
         /\ LET t == Min({x \in Tasks : task_pc[x] = "unused"})
            IN task_pc' = [task_pc EXCEPT ![t] = "scheduled"]
         /\ response' = Response("generate", 200)
         /\ emitted' = {}
         /\ UNCHANGED <<flowVars, task_slides, task_done, last_approve,
                        restored, helperVars,
                   run_events, last_messages, emitVars, stream,
                   serviceVars>>

\* _run_generation_task -> run_generation, up to its first suspension:
\* the status check, the planner and refiner stages and the start of the
\* generator stage (asyncio.gather of the slide tasks)
RunGenerationTask(t) ==
    /\ task_pc[t] = "scheduled"
    /\ IF status # OUTLINE_APPROVED
       THEN \* ValueError before the try block; the task's handler stores it
            /\ MarkFailed(t, "Cannot generate: status is not outline_approved")
            /\ emitted' = {}
            /\ UNCHANGED <<current_stage, planned_content, refined_content,
                           generated_presentation, qa_report, qa_loops,
                           task_slides, task_done, run_events>>
       ELSE \E p \in PlannerResults, refiner_raises \in BOOLEAN :
            LET planned == parse_planned_content(p, Get(skeleton),
                                                 Get(order_form))
                refined == RefinedContent(planned)
            IN IF p.kind = "raise"
               THEN /\ current_stage' = "planner"
                    /\ MarkFailed(t, "planner failed")
                    /\ emitted' = {"stage_start", "error"}
                    /\ run_events' = run_events \o PlannerEvents(TRUE)
                    /\ UNCHANGED <<planned_content, refined_content,
                                   generated_presentation, qa_report,
                                   qa_loops, task_slides, task_done>>
               ELSE IF refiner_raises
               THEN /\ planned_content' = Some(planned)
                    /\ current_stage' = "refiner"
                    /\ MarkFailed(t, "refiner failed")
                    /\ emitted' = {"stage_start", "stage_complete", "error"}
                    /\ run_events' = run_events \o PlannerEvents(FALSE)
                                      \o RefinerEvents(planned.slides, TRUE)
                    /\ UNCHANGED <<refined_content, generated_presentation,
                                   qa_report, qa_loops, task_slides,
                                   task_done>>
               ELSE IF refined.slides = <<>>
               THEN \* gather() of nothing does not suspend
                    /\ planned_content' = Some(planned)
                    /\ refined_content' = Some(refined)
                    /\ CompleteRun(t, refined, <<>>)
                    /\ run_events' = run_events \o PlannerEvents(FALSE)
                                      \o RefinerEvents(planned.slides, FALSE)
                                      \o GeneratorStartEvents
                                      \o CompletionEvents(refined, <<>>)
                    /\ UNCHANGED <<task_slides, task_done>>
               ELSE /\ planned_content' = Some(planned)
                    /\ refined_content' = Some(refined)
                    /\ current_stage' = "generator"
                    /\ status' = GENERATING
                    /\ task_pc' = [task_pc EXCEPT ![t] = "gather"]
                    /\ task_slides' = [task_slides EXCEPT ![t] = refined.slides]
                    /\ task_done' = [task_done EXCEPT ![t] = 0]
                    /\ emitted' = {"stage_start", "stage_complete",
                                   "slide_progress"}
                    /\ run_events' = run_events \o PlannerEvents(FALSE)
                                      \o RefinerEvents(planned.slides, FALSE)
                                      \o GeneratorStartEvents
                    /\ UNCHANGED <<error_message, generated_presentation,
                                   qa_report, qa_loops>>
    /\ NewFlow
    /\ UNCHANGED <<gathered_info, order_form, skeleton, knowledge_base,
                   slides_completed, total_slides, response, last_approve,
                   restored, last_messages, emitVars, stream,
                   serviceVars>>

\* one slide task of the gather: _generate_slide_html
GenerateSlide(t) ==
    /\ task_pc[t] = "gather"
    /\ task_done[t] < Len(task_slides[t])
    /\ slides_completed' = slides_completed + 1
    /\ task_done' = [task_done EXCEPT ![t] = @ + 1]
    /\ emitted' = {"slide_progress"}
    /\ run_events' = run_events \o SlideTaskEvents
    /\ UNCHANGED <<status, current_stage, error_message, gathered_info,
                   order_form, skeleton, planned_content, refined_content,
                   generated_presentation, qa_report, knowledge_base,
                   qa_loops, total_slides, task_pc, task_slides, response,
                   last_approve, restored, helperVars,
                   last_messages, emitVars, stream,
                   serviceVars>>

\* run_generation resumed once every slide task has finished
FinishGeneration(t) ==
    /\ task_pc[t] = "gather"
    /\ task_done[t] = Len(task_slides[t])
    /\ CompleteRun(t, Get(refined_content), task_slides[t])
    /\ run_events' =
          run_events \o CompletionEvents(Get(refined_content), task_slides[t])
    /\ UNCHANGED <<gathered_info, order_form, skeleton, planned_content,
                   refined_content, knowledge_base, slides_completed,
                   total_slides, task_slides, task_done, response,
                   last_approve, restored, helperVars,
                   last_messages, emitVars, stream,
                   serviceVars>>

\* ------------------------------------- GET /status/{id}, /result/{id}
\* model_dump() of a slide list: the field values, without object identity
DumpSlides(slides) ==
    [i \in DOMAIN slides |->
        [order |-> slides[i].order, title |-> slides[i].title,
         content_type |-> slides[i].content_type,
         description |-> slides[i].description]]

DumpSkeleton(sk) ==
    IF IsSome(sk)
    THEN Some([presentation_title |-> Get(sk).presentation_title,
               target_audience |-> Get(sk).target_audience,
               slides |-> DumpSlides(Get(sk).slides)])
    ELSE Nothing

\* SessionStatusResponse(...) as get_status fills it from the session
SessionStatusResponse ==
    [session_id |-> session_id,
     status |-> status,
     current_stage |-> current_stage,
     slides_completed |-> slides_completed,
     total_slides |-> total_slides,
     order_form |-> order_form,
     skeleton |-> DumpSkeleton(skeleton),
     qa_score |-> IF IsSome(qa_report)
                  THEN Some(Get(qa_report).average_score)
                  ELSE Nothing]

GetStatus ==
    /\ response' = [op |-> "status", code |-> 200,
                    body |-> SessionStatusResponse]
    /\ emitted' = {}
    /\ UNCHANGED <<flowVars, taskVars, last_approve, restored, helperVars,
                   run_events, last_messages, emitVars, stream,
                   serviceVars>>

GetResult ==
    /\ response' = IF status # COMPLETED THEN Response("result", 400)
                   ELSE IF ~IsSome(generated_presentation)
                        THEN Response("result", 500)
                        ELSE Response("result", 200)
    /\ emitted' = {}
    /\ UNCHANGED <<flowVars, taskVars, last_approve, restored, helperVars,
                   run_events, last_messages, emitVars, stream,
                   serviceVars>>

\* ------------------------------------------------------- specifications
\* the lists the session's client sends to approve-outline
ClientModLists ==
    {<<>>, <<RemoveMod(Some(2))>>, <<AddMod(Some(0), "content")>>,
     <<ReorderMod(<<3, 1, 2>>)>>}

Next ==
    \/ Clarify
    \/ Confirm
    \/ GetOutline
    \/ ApproveOutline(ClientModLists)
    \/ StartGeneration
    \/ \E t \in Tasks : RunGenerationTask(t)
    \/ \E t \in Tasks : GenerateSlide(t)
    \/ \E t \in Tasks : FinishGeneration(t)
    \/ GetStatus
    \/ GetResult

Spec == Init /\ [][Next]_vars


\* ----------------------------------------------- to_db_dict and from_db
\* a fresh uuid4(), different from every session id in use
FreshUuid == "fresh-uuid"

\* the FlowState of the session, as a value
FlowState ==
    [session_id |-> session_id,
     status |-> status,
     current_stage |-> current_stage,
     order_form |-> order_form,
     skeleton |-> DumpSkeleton(skeleton),
     planned_content |-> planned_content,
     refined_content |-> refined_content,
     generated_presentation |-> generated_presentation,
     qa_report |-> qa_report,
     knowledge_base |-> knowledge_base,
     gathered_info |-> gathered_info,
     qa_loops |-> qa_loops,
     error_message |-> error_message,
     slides_completed |-> slides_completed,
     total_slides |-> total_slides]

\* FlowState.to_db_dict: the keys it writes (updated_at left out)
to_db_dict(state) ==
    [session_id |-> state.session_id,
     status |-> state.status,
     current_stage |-> state.current_stage,
     order_form |-> state.order_form,
     skeleton |-> state.skeleton,
     planned_content |-> state.planned_content,
     refined_content |-> state.refined_content,
     generated_slides |-> state.generated_presentation,
     knowledge_base |-> state.knowledge_base,
     qa_loops_count |-> state.qa_loops,
     helper_retries |-> 0,
     final_qa_score |-> IF IsSome(state.qa_report)
                        THEN Some(Get(state.qa_report).average_score)
                        ELSE Nothing]

\* FlowState.from_db: the keys it reads, every other field at its default
from_db(db_session) ==
    [session_id |-> IF "id" \in DOMAIN db_session THEN db_session["id"]
                    ELSE FreshUuid,
     status |-> db_session.status,
     current_stage |-> db_session.current_stage,
     order_form |-> db_session.order_form,
     skeleton |-> db_session.skeleton,
     planned_content |-> db_session.planned_content,
     refined_content |-> db_session.refined_content,
     generated_presentation |-> db_session.generated_slides,
     qa_report |-> Nothing,
     knowledge_base |-> db_session.knowledge_base,
     gathered_info |-> Nothing,
     qa_loops |-> db_session.qa_loops_count,
     error_message |-> None,
     slides_completed |-> 0,
     total_slides |-> 0]

\* the session is stored with to_db_dict and loaded again with from_db
PersistRestore ==
    /\ restored = Nothing
    /\ restored' = Some([orig |-> FlowState,
                         back |-> from_db(to_db_dict(FlowState))])
    /\ UNCHANGED <<flowVars, taskVars, response, last_approve, emitted,
                   helperVars,
                   run_events, last_messages, emitVars, stream,
                   serviceVars>>

\* The session's life with one store/load round trip taken at any point.
NextPersist ==
    \/ restored = Nothing /\ Next
    \/ PersistRestore

SpecPersist == Init /\ [][NextPersist]_vars

\* ---------------------------------------------- outline approval alone
\* The session as it waits for the approval of its outline: the first
\* message carried no cue, the agent answered with an order form and
\* /outline built the skeleton.
InitOutline ==
    \E f \in AgentForms :
        LET form == merge_gathered_info([f EXCEPT !.is_complete = TRUE],
                                        GatheredInfo)
        IN /\ status = AWAITING_OUTLINE_APPROVAL
           /\ current_stage = "clarifier"
           /\ error_message = None
           /\ gathered_info = Some(GatheredInfo)
           /\ order_form = Some(form)
           /\ skeleton = Some(Skeleton(form))
           /\ planned_content = Nothing
           /\ refined_content = Nothing
           /\ generated_presentation = Nothing
           /\ qa_report = Nothing
           /\ knowledge_base = Nothing
           /\ qa_loops = 0
           /\ slides_completed = 0
           /\ total_slides = Len(OutlineSlides(form))
           /\ task_pc = [t \in Tasks |-> "unused"]
           /\ task_slides = [t \in Tasks |-> <<>>]
           /\ task_done = [t \in Tasks |-> 0]
           /\ response = Response("outline", 200)
           /\ last_approve = NoApprove
           /\ restored = Nothing
           /\ emitted = {"stage_start", "pause"}
           /\ retry_tracker = RetryBudget
           /\ helper_decision = NoDecision
           /\ recorded = NoneRecorded
           /\ NothingObserved

\* every modification list up to MaxMods over the outline's slides
OutlineModLists == ModLists(Len(Get(skeleton).slides), MaxMods)

\* one approve-outline request on the generated outline
NextOutline == ~last_approve.called /\ ApproveOutline(OutlineModLists)

SpecOutline == InitOutline /\ [][NextOutline]_vars


\* -------------------------------------------------- the retry budget alone
\* flow.retry_tracker.record_attempt(agent_name)
RecordAttempt(agent_name) ==
    /\ recorded[agent_name] < MaxRecorded
    /\ retry_tracker' = record_attempt(retry_tracker, agent_name)
    /\ recorded' = [recorded EXCEPT ![agent_name] = @ + 1]
    /\ UNCHANGED <<flowVars, taskVars, response, last_approve, restored,
                   emitted, helper_decision,
                   run_events, last_messages, emitVars, stream,
                   serviceVars>>

\* flow.retry_tracker.reset(agent_name), agent_name a stage or None
Reset(agent_name) ==
    /\ retry_tracker' = reset(retry_tracker, agent_name)
    /\ recorded' = IF agent_name \in StageNames
                   THEN [recorded EXCEPT ![agent_name] = 0]
                   ELSE NoneRecorded
    /\ UNCHANGED <<flowVars, taskVars, response, last_approve, restored,
                   emitted, helper_decision,
                   run_events, last_messages, emitVars, stream,
                   serviceVars>>

\* create_fix_task for a failure of `stage` and the HelperDecision the
\* helper agent answers with
HelperDecides(stage, failure_type, action) ==
    /\ helper_decision' =
          [made |-> TRUE,
           context |-> FailureContext(stage, failure_type,
                                      get_attempts(retry_tracker, stage)),
           decision |-> HelperDecision(action)]
    /\ UNCHANGED <<flowVars, taskVars, response, last_approve, restored,
                   emitted, retry_tracker, recorded,
                   run_events, last_messages, emitVars, stream,
                   serviceVars>>

NextBudget ==
    \/ \E a \in StageNames : RecordAttempt(a)
    \/ \E a \in StageNames \cup {None} : Reset(a)
    \/ \E a \in StageNames, f \in FailureTypes, d \in HelperActions :
          HelperDecides(a, f, d)

SpecBudget == Init /\ [][NextBudget]_vars

\* ------------------------------------------------- the event emitter alone
\* what a registered callback is: a plain function or a coroutine function
\* (asyncio.iscoroutinefunction), returning or raising an Exception
ListenerKinds == {"sync", "sync_raises", "async", "async_raises"}
Raises(kind) == kind \in {"sync_raises", "async_raises"}

EventTypes ==
    {"stage_start", "stage_complete", "slide_progress", "pause", "error",
     "complete"}

RECURSIVE EmitLoopUncaught(_, _, _)
\* the loop of emit without its try/except: the first raising listener
\* ends it and the exception leaves emit
EmitLoopUncaught(ls, i, called) ==
    IF i > Len(ls) THEN [delivered |-> called, raised |-> FALSE]
    ELSE IF Raises(ls[i]) THEN [delivered |-> Append(called, i), raised |-> TRUE]
    ELSE EmitLoopUncaught(ls, i + 1, Append(called, i))

RECURSIVE EmitLoop(_, _, _)
\* `for listener in self.listeners`: listener i is called (awaited when it
\* is a coroutine function); an Exception it raises is logged and the loop
\* goes on.  called: the listeners called so far, in order.
EmitLoop(ls, i, called) ==
    IF i > Len(ls) THEN [delivered |-> called, raised |-> FALSE]
    ELSE EmitLoop(ls, i + 1, Append(called, i))

\* emitter.add_listener(callback)
AddListener(kind) ==
    /\ Len(listeners) < MaxListeners
    /\ listeners' = Append(listeners, kind)
    /\ UNCHANGED <<flowVars, taskVars, response, last_approve, restored,
                   emitted, helperVars, run_events, last_messages, last_emit,
                   stream, serviceVars>>

\* await emitter.emit(event_type, data)
Emit(event_type) ==
    /\ LET done == EmitLoop(listeners, 1, <<>>)
       IN last_emit' = [made |-> TRUE, type |-> event_type,
                        listeners |-> listeners,
                        delivered |-> done.delivered, raised |-> done.raised]
    /\ UNCHANGED <<flowVars, taskVars, response, last_approve, restored,
                   emitted, helperVars, run_events, last_messages, listeners,
                   stream, serviceVars>>

NextEmit ==
    \/ \E kind \in ListenerKinds : AddListener(kind)
    \/ \E event_type \in EventTypes : Emit(event_type)

SpecEmit == Init /\ [][NextEmit]_vars

\* ------------------------------------------- the clarification phase alone
NextClarify ==
    \/ ClarifyRecorded
    \/ Confirm

SpecClarify == Init /\ [][NextClarify]_vars

\* ------------------------------------------- the session once clarified
\* The session when its clarification has just completed: the first message
\* carried no cue and the agent answered with an order form.
InitClarified ==
    \E f \in AgentForms :
        LET form == merge_gathered_info([f EXCEPT !.is_complete = TRUE],
                                        GatheredInfo)
        IN /\ status = CLARIFICATION_COMPLETE
           /\ current_stage = "clarifier"
           /\ error_message = None
           /\ gathered_info = Some(GatheredInfo)
           /\ order_form = Some(form)
           /\ skeleton = Nothing
           /\ planned_content = Nothing
           /\ refined_content = Nothing
           /\ generated_presentation = Nothing
           /\ qa_report = Nothing
           /\ knowledge_base = Nothing
           /\ qa_loops = 0
           /\ slides_completed = 0
           /\ total_slides = 0
           /\ task_pc = [t \in Tasks |-> "unused"]
           /\ task_slides = [t \in Tasks |-> <<>>]
           /\ task_done = [t \in Tasks |-> 0]
           /\ response = Response("clarify", 200)
           /\ last_approve = NoApprove
           /\ restored = Nothing
           /\ emitted = {"stage_start", "stage_complete"}
           /\ retry_tracker = RetryBudget
           /\ helper_decision = NoDecision
           /\ recorded = NoneRecorded
           /\ NothingObserved

SpecClarified == InitClarified /\ [][Next]_vars

\* ------------------------------------------------- the generation run alone
\* The session once its outline was approved as it stood.
InitRun ==
    \E f \in AgentForms :
        LET form == merge_gathered_info([f EXCEPT !.is_complete = TRUE],
                                        GatheredInfo)
        IN /\ status = OUTLINE_APPROVED
           /\ current_stage = "clarifier"
           /\ error_message = None
           /\ gathered_info = Some(GatheredInfo)
           /\ order_form = Some(form)
           /\ skeleton = Some(Skeleton(form))
           /\ planned_content = Nothing
           /\ refined_content = Nothing
           /\ generated_presentation = Nothing
           /\ qa_report = Nothing
           /\ knowledge_base = Nothing
           /\ qa_loops = 0
           /\ slides_completed = 0
           /\ total_slides = Len(OutlineSlides(form))
           /\ task_pc = [t \in Tasks |-> "unused"]
           /\ task_slides = [t \in Tasks |-> <<>>]
           /\ task_done = [t \in Tasks |-> 0]
           /\ response = Response("approve", 200)
           /\ last_approve = [called |-> TRUE, mods |-> <<>>,
                              before |-> OutlineSlides(form),
                              raised |-> FALSE]
           /\ restored = Nothing
           /\ emitted = {"stage_complete"}
           /\ retry_tracker = RetryBudget
           /\ helper_decision = NoDecision
           /\ recorded = NoneRecorded
           /\ NothingObserved

NextRun ==
    \/ StartGeneration
    \/ \E t \in Tasks : RunGenerationTask(t)
    \/ \E t \in Tasks : GenerateSlide(t)
    \/ \E t \in Tasks : FinishGeneration(t)
    \/ GetStatus
    \/ GetResult

\* the event loop runs every background task that is ready to run
FairRun ==
    \A t \in Tasks :
        /\ WF_vars(RunGenerationTask(t))
        /\ WF_vars(GenerateSlide(t))
        /\ WF_vars(FinishGeneration(t))

SpecRun == InitRun /\ [][NextRun]_vars /\ FairRun


\* -------------------------------------------------- GET /stream/{id}
\* stream.pc: "closed" (no connection yet), "open" (StreamingResponse
\* returned, event_generator not started), "sleeping" (in asyncio.sleep),
\* "ended" (generator returned), "disconnected" (the client went away and
\* the generator was closed).  last_stage and last_slides are the
\* generator's locals, sent the events of its latest run.
StreamFrame ==
    UNCHANGED <<flowVars, taskVars, response, last_approve, restored, emitted,
                helperVars, run_events, last_messages, emitVars,
                serviceVars>>

\* stream_progress: get_session and return StreamingResponse(...)
OpenStream ==
    /\ stream.pc \in {"closed", "ended", "disconnected"}
    /\ stream' = [NoStream EXCEPT !.pc = "open"]
    /\ StreamFrame

\* the final event after the while loop
FinalEvent ==
    IF status = COMPLETED THEN <<"complete">>
    ELSE IF status = FAILED THEN <<"error">>
    ELSE <<>>

\* event_generator from its start, or from the end of a sleep, to its next
\* sleep or its end
StreamStep ==
    /\ stream.pc \in {"open", "sleeping"}
    /\ LET stage0 == IF stream.pc = "open" THEN current_stage
                     ELSE stream.last_stage
           slides0 == IF stream.pc = "open" THEN slides_completed
                      ELSE stream.last_slides
       IN IF status \in {GENERATING, QA_IN_PROGRESS}
          THEN stream' =
                 [pc |-> "sleeping",
                  last_stage |-> current_stage,
                  last_slides |-> slides_completed,
                  sent |-> (IF current_stage # stage0
                            THEN <<"stage_start">> ELSE <<>>)
                           \o (IF slides_completed # slides0
                               THEN <<"slide_progress">> ELSE <<>>)]
          ELSE stream' = [pc |-> "ended", last_stage |-> stage0,
                          last_slides |-> slides0, sent |-> FinalEvent]
    /\ StreamFrame

\* a client disconnect that also cancels the run suspended in gather
DisconnectCancelsRun ==
    /\ stream.pc \in {"open", "sleeping"}
    /\ stream' = [stream EXCEPT !.pc = "disconnected", !.sent = <<>>]
    /\ task_pc' = [t \in Tasks |->
                     IF task_pc[t] = "gather" THEN "done" ELSE task_pc[t]]
    /\ UNCHANGED <<flowVars, task_slides, task_done, response, last_approve,
                   restored, emitted, helperVars, run_events, last_messages,
                   emitVars, serviceVars>>

\* the client disconnects: the response closes event_generator where it
\* stands
Disconnect ==
    /\ stream.pc \in {"open", "sleeping"}
    /\ stream' = [stream EXCEPT !.pc = "disconnected", !.sent = <<>>]
    /\ StreamFrame

\* The session once its outline was approved as it stood and
\* POST /generate/{id} was accepted: the first background task is scheduled.
InitStarted ==
    \E f \in AgentForms :
        LET form == merge_gathered_info([f EXCEPT !.is_complete = TRUE],
                                        GatheredInfo)
        IN /\ status = OUTLINE_APPROVED
           /\ current_stage = "clarifier"
           /\ error_message = None
           /\ gathered_info = Some(GatheredInfo)
           /\ order_form = Some(form)
           /\ skeleton = Some(Skeleton(form))
           /\ planned_content = Nothing
           /\ refined_content = Nothing
           /\ generated_presentation = Nothing
           /\ qa_report = Nothing
           /\ knowledge_base = Nothing
           /\ qa_loops = 0
           /\ slides_completed = 0
           /\ total_slides = Len(OutlineSlides(form))
           /\ task_pc = [t \in Tasks |-> IF t = 1 THEN "scheduled"
                                         ELSE "unused"]
           /\ task_slides = [t \in Tasks |-> <<>>]
           /\ task_done = [t \in Tasks |-> 0]
           /\ response = Response("generate", 200)
           /\ last_approve = [called |-> TRUE, mods |-> <<>>,
                              before |-> OutlineSlides(form),
                              raised |-> FALSE]
           /\ restored = Nothing
           /\ emitted = {}
           /\ retry_tracker = RetryBudget
           /\ helper_decision = NoDecision
           /\ recorded = NoneRecorded
           /\ NothingObserved

\* the started run, the reads and a progress stream that comes and goes
NextStream ==
    \/ \E t \in Tasks : RunGenerationTask(t)
    \/ \E t \in Tasks : GenerateSlide(t)
    \/ \E t \in Tasks : FinishGeneration(t)
    \/ GetStatus
    \/ GetResult
    \/ OpenStream
    \/ StreamStep
    \/ Disconnect

SpecStream == InitStarted /\ [][NextStream]_vars /\ FairRun


\* ------------------------------------------------- run_synthesis
\* A Python str is kept as its leading word and the rest, so that
\* startswith tests the text and not a tag.
StartsWith(str, prefix) == Len(str) > 0 /\ str[1] = prefix

\* What SynthesisTool._run returns for a path: the KnowledgeBase parsed
\* from the model's JSON, or the str of one of its except branches.
ParsedKnowledgeBase(path) ==
    [is_str |-> FALSE, summary |-> path,
     sections |-> <<[title |-> path, page_range |-> "1-3"]>>]
ErrorFileNotFound ==
    [is_str |-> TRUE, text |-> <<"Error", ": File not found at">>]
UnexpectedError ==
    [is_str |-> TRUE, text |-> <<"An", " unexpected error occurred: ">>]
ToolReturns(path) ==
    {ParsedKnowledgeBase(path), ErrorFileNotFound, UnexpectedError}

\* KnowledgeBase(summary="\n\n".join(parts), sections=all_sections)
KnowledgeBase(parts, sections) == [summary |-> parts, sections |-> sections]

\* the lists of at most n file paths
RECURSIVE PathLists(_)
PathLists(n) ==
    IF n = 0 THEN {<<>>}
    ELSE LET shorter == PathLists(n - 1)
         IN shorter \cup {Append(l, f) : l \in shorter, f \in {"a.pdf", "b.pdf"}}

\* the end of run_synthesis, after the loop over file_paths
FinishSynthesis(sy) ==
    /\ knowledge_base' =
          Some(KnowledgeBase(sy.combined_summary_parts, sy.all_sections))
    /\ status' = AWAITING_CLARIFICATION
    /\ synth' = [sy EXCEPT !.pc = "done"]

SynthesisFrame ==
    UNCHANGED <<error_message, gathered_info, order_form, skeleton,
                planned_content, refined_content, generated_presentation,
                qa_report, qa_loops, slides_completed, total_slides,
                taskVars, response, last_approve, restored, helperVars,
                run_events, last_messages, emitVars, stream,
                metrics_instances, poll>>

\* flow.run_synthesis(file_paths), up to the first run_in_executor (or to
\* its end when there is no file)
RunSynthesis(file_paths) ==
    /\ synth.pc \in {"idle", "done", "raised"}
    /\ current_stage' = "synthesis"
    /\ LET sy == [pc |-> "running", file_paths |-> file_paths, i |-> 1,
                  returned |-> <<>>, all_sections |-> <<>>,
                  combined_summary_parts |-> <<>>]
       IN IF file_paths = <<>>
          THEN /\ FinishSynthesis(sy)
               /\ emitted' = {"stage_start", "stage_complete"}
          ELSE /\ status' = SYNTHESIZING
               /\ synth' = sy
               /\ emitted' = {"stage_start"}
               /\ UNCHANGED knowledge_base
    /\ SynthesisFrame

\* synthesis_tool._run returns kb for file_paths[i]: the rest of the loop
\* body, and the end of run_synthesis after the last file
SynthesizeFile(kb) ==
    /\ synth.pc = "running"
    /\ LET last == synth.i = Len(synth.file_paths)
           seen == [synth EXCEPT !.returned = Append(@, kb), !.i = @ + 1]
       IN IF kb.is_str /\ StartsWith(kb.text, "Error")
          THEN \* continue
               IF last
               THEN FinishSynthesis(seen) /\ emitted' = {"stage_complete"}
               ELSE /\ synth' = seen
                    /\ emitted' = {}
                    /\ UNCHANGED <<status, knowledge_base>>
          ELSE IF kb.is_str
          THEN \* kb.sections of a str: AttributeError leaves run_synthesis
               /\ synth' = [seen EXCEPT !.pc = "raised"]
               /\ emitted' = {}
               /\ UNCHANGED <<status, knowledge_base>>
          ELSE LET more ==
                     [seen EXCEPT
                        !.all_sections = @ \o kb.sections,
                        !.combined_summary_parts =
                           Append(@, <<synth.file_paths[synth.i],
                                       kb.summary>>)]
               IN IF last
                  THEN FinishSynthesis(more) /\ emitted' = {"stage_complete"}
                  ELSE /\ synth' = more
                       /\ emitted' = {}
                       /\ UNCHANGED <<status, knowledge_base>>
    /\ UNCHANGED current_stage
    /\ SynthesisFrame

NextSynthesis ==
    \/ \E file_paths \in PathLists(MaxFiles) : RunSynthesis(file_paths)
    \/ /\ synth.pc = "running"
       /\ \E kb \in ToolReturns(synth.file_paths[synth.i]) : SynthesizeFile(kb)

SpecSynthesis == Init /\ [][NextSynthesis]_vars

\* ------------------------------------------------------- session metrics
\* MODEL_TO_TIER.get(model, "flash")
ModelTier(model) ==
    IF model \in {"gemini-3-pro", "gemini-3-pro-preview"} THEN "pro"
    ELSE "flash"

\* TokenUsage.calculate_cost(), in units of 0.50 USD per million tokens
\* (flash: input 0.50, output 3.00; pro: input 2.00, output 12.00);
\* thinking tokens are billed as output.  The rounding of the float sum is
\* not represented.
calculate_cost(usage) ==
    IF ModelTier(usage.model) = "pro"
    THEN usage.input_tokens * 4
         + (usage.output_tokens + usage.thinking_tokens) * 24
    ELSE usage.input_tokens
         + (usage.output_tokens + usage.thinking_tokens) * 6

\* AgentMetrics(agent_name=agent_name); avg_duration_ms is kept as the
\* fraction <<total_duration_ms, calls>>
AgentMetrics(agent_name) ==
    [agent_name |-> agent_name, calls |-> 0,
     total_input_tokens |-> 0, total_output_tokens |-> 0,
     total_thinking_tokens |-> 0, total_cost_usd |-> 0,
     total_duration_ms |-> 0, avg_duration_ms |-> <<0, 1>>,
     call_history |-> <<>>]

\* add_usage that keeps only the latest call in call_history
add_usage_keeping_latest(agent, usage, duration_ms) ==
    [agent EXCEPT
       !.calls = @ + 1,
       !.total_input_tokens = @ + usage.input_tokens,
       !.total_output_tokens = @ + usage.output_tokens,
       !.total_thinking_tokens = @ + usage.thinking_tokens,
       !.total_cost_usd = @ + calculate_cost(usage),
       !.total_duration_ms = @ + duration_ms,
       !.avg_duration_ms = <<agent.total_duration_ms + duration_ms,
                             agent.calls + 1>>,
       !.call_history = <<usage>>]

\* AgentMetrics.add_usage(usage, duration_ms)
add_usage(agent, usage, duration_ms) ==
    [agent EXCEPT
       !.calls = @ + 1,
       !.total_input_tokens = @ + usage.input_tokens,
       !.total_output_tokens = @ + usage.output_tokens,
       !.total_thinking_tokens = @ + usage.thinking_tokens,
       !.total_cost_usd = @ + calculate_cost(usage),
       !.total_duration_ms = @ + duration_ms,
       !.avg_duration_ms = <<agent.total_duration_ms + duration_ms,
                             agent.calls + 1>>,
       !.call_history = Append(@, usage)]

\* SessionMetrics(session_id=session_id)
SessionMetrics(sid) ==
    [session_id |-> sid, agents |-> <<>>,
     total_input_tokens |-> 0, total_output_tokens |-> 0,
     total_thinking_tokens |-> 0, total_cost_usd |-> 0,
     total_api_calls |-> 0]

\* SessionMetrics.get_agent(agent_name): the agents dict after the call
get_agent(metrics, agent_name) ==
    IF agent_name \in DOMAIN metrics.agents THEN metrics.agents
    ELSE [a \in DOMAIN metrics.agents \cup {agent_name} |->
            IF a = agent_name THEN AgentMetrics(agent_name)
            ELSE metrics.agents[a]]

\* SessionMetrics.record_usage(agent_name, usage, duration_ms)
record_usage(metrics, agent_name, usage, duration_ms) ==
    LET agents == get_agent(metrics, agent_name)
    IN [metrics EXCEPT
          !.agents = [agents EXCEPT
                        ![agent_name] = add_usage(@, usage, duration_ms)],
          !.total_input_tokens = @ + usage.input_tokens,
          !.total_output_tokens = @ + usage.output_tokens,
          !.total_thinking_tokens = @ + usage.thinking_tokens,
          !.total_cost_usd = @ + calculate_cost(usage),
          !.total_api_calls = @ + 1]

\* TokenUsage values as extract_usage_from_response fills them
Usages ==
    {[input_tokens |-> 120, output_tokens |-> 40, thinking_tokens |-> 8,
      model |-> "gemini-3-pro"],
     [input_tokens |-> 30, output_tokens |-> 0, thinking_tokens |-> 0,
      model |-> ""]}

MetricsFrame ==
    UNCHANGED <<flowVars, taskVars, response, last_approve, restored,
                emitted, helperVars, run_events, last_messages, emitVars,
                stream, synth, poll>>

\* the calls recorded so far, over all sessions
RECURSIVE ApiCalls(_, _)
ApiCalls(instances, sids) ==
    IF sids = {} THEN 0
    ELSE LET s == CHOOSE x \in sids : TRUE
         IN instances[s].total_api_calls + ApiCalls(instances, sids \ {s})

\* MetricsCollector.get_or_create(session_id), as SlideGenerationFlow's
\* __init__ calls it
GetOrCreate(sid) ==
    /\ sid \notin DOMAIN metrics_instances
    /\ metrics_instances' =
          [s \in DOMAIN metrics_instances \cup {sid} |->
             IF s = sid THEN SessionMetrics(sid) ELSE metrics_instances[s]]
    /\ MetricsFrame

\* MetricsCollector.get(session_id).record(agent_name, usage, duration_ms)
Record(sid, agent_name, usage, duration_ms) ==
    /\ sid \in DOMAIN metrics_instances
    /\ ApiCalls(metrics_instances, DOMAIN metrics_instances) < MaxCalls
    /\ metrics_instances' =
          [metrics_instances EXCEPT
             ![sid] = record_usage(@, agent_name, usage, duration_ms)]
    /\ MetricsFrame

NextMetrics ==
    \/ \E sid \in {"session-1", "session-2"} : GetOrCreate(sid)
    \/ \E sid \in {"session-1", "session-2"},
          agent_name \in {"planner", "refiner"}, usage \in Usages,
          duration_ms \in {0, 1500} :
          Record(sid, agent_name, usage, duration_ms)

SpecMetrics == Init /\ [][NextMetrics]_vars

\* ------------------------------------------------ poll_research_status
\* poll.pc: "idle" (no call), "polling" (in run_in_executor, waiting for
\* client.interactions.get), "sleeping" (in asyncio.sleep), "returned".
\* poll.slept is the time spent in asyncio.sleep, poll.reply the latest
\* answer of interactions.get.
max_interval == 60

\* what client.interactions.get(id=task_id) does: it raises, or returns an
\* object with or without a status attribute
RemoteReplies ==
    {[raises |-> TRUE, status |-> None], [raises |-> FALSE, status |-> None]}
    \cup {[raises |-> FALSE, status |-> st] :
            st \in {"in_progress", "completed", "failed", "cancelled"}}

PollFrame ==
    UNCHANGED <<flowVars, taskVars, response, last_approve, restored,
                emitted, helperVars, run_events, last_messages, emitVars,
                stream, synth, metrics_instances>>

\* the test of the while loop: poll again, or leave the loop and return
\* timeout
LoopTest(p) ==
    IF p.elapsed < p.max_wait_seconds THEN [p EXCEPT !.pc = "polling"]
    ELSE [p EXCEPT !.pc = "returned", !.result = "timeout"]

\* poll_research_status(task_id, max_wait_seconds, poll_interval), up to
\* the first run_in_executor
PollResearchStatus(max_wait_seconds, poll_interval) ==
    /\ poll.pc \in {"idle", "returned"}
    /\ poll' = LoopTest([NoPoll EXCEPT
                           !.max_wait_seconds = max_wait_seconds,
                           !.poll_interval = poll_interval,
                           !.current_interval = poll_interval])
    /\ PollFrame

\* interactions.get answers: the rest of the try block, up to a return or
\* to asyncio.sleep
PollReturns(reply) ==
    /\ poll.pc = "polling"
    /\ LET st == IF reply.status # None THEN reply.status ELSE "unknown"
       IN poll' = IF ~reply.raises
                     /\ st \in {"completed", "failed", "cancelled"}
                  THEN [poll EXCEPT !.pc = "returned", !.reply = Some(reply),
                                    !.result = st]
                  ELSE [poll EXCEPT !.pc = "sleeping", !.reply = Some(reply)]
    /\ PollFrame

\* a loop that reports the reached ceiling as a failure
WakeReturnsFailed ==
    /\ poll.pc = "sleeping"
    /\ LET p == LoopTest([poll EXCEPT
                 !.slept = @ + Max({poll.current_interval, 0}),
                 !.elapsed = @ + poll.current_interval,
                 !.current_interval =
                    Min({poll.current_interval + 5, max_interval})])
       IN poll' = IF p.pc = "returned" THEN [p EXCEPT !.result = "failed"]
                  ELSE p
    /\ PollFrame

\* asyncio.sleep(current_interval) ends (at once for an interval <= 0):
\* the two updates and the loop test
Wake ==
    /\ poll.pc = "sleeping"
    /\ poll' = LoopTest([poll EXCEPT
                 !.slept = @ + Max({poll.current_interval, 0}),
                 !.elapsed = @ + poll.current_interval,
                 !.current_interval =
                    Min({poll.current_interval + 5, max_interval})])
    /\ PollFrame

NextPoll ==
    \/ \E max_wait_seconds \in {0, 30, 100},
          poll_interval \in {-10, 0, 10, 70} :
          PollResearchStatus(max_wait_seconds, poll_interval)
    \/ \E reply \in RemoteReplies : PollReturns(reply)
    \/ Wake

\* every interactions.get call answers or raises, and the event loop ends
\* every sleep
FairPoll ==
    /\ WF_vars(\E reply \in RemoteReplies : PollReturns(reply))
    /\ WF_vars(Wake)

SpecPoll == Init /\ [][NextPoll]_vars /\ FairPoll

\* ================================================================ claims

\* the edges of the flow state machine
FlowEdges ==
    {<<AWAITING_CLARIFICATION, CLARIFICATION_COMPLETE>>,
     <<CLARIFICATION_COMPLETE, AWAITING_OUTLINE_APPROVAL>>,
     <<AWAITING_OUTLINE_APPROVAL, OUTLINE_APPROVED>>,
     <<OUTLINE_APPROVED, GENERATING>>,
     <<GENERATING, QA_IN_PROGRESS>>,
     <<QA_IN_PROGRESS, COMPLETED>>,
     <<QA_IN_PROGRESS, GENERATING>>,
     <<SYNTHESIZING, AWAITING_CLARIFICATION>>}
    \cup {<<st, FAILED>> : st \in FlowStatus \ {COMPLETED, FAILED}}

\* C1: every change of the session's status follows an edge of the flow
\* state machine; in particular Completed is entered only from
\* QAInProgress and Generating is left only towards QAInProgress or Failed.
C1_StatusFollowsEdges ==
    [][(status' # status) => (<<status, status'>> \in FlowEdges)]_vars

\* C2: Completed and Failed are terminal: once the status is one of them,
\* no step of any handler or background task changes it again.
C2_TerminalStatusStays ==
    [][(status \in {COMPLETED, FAILED}) => (status' = status)]_vars

\* the step is one of the run of task t (it moves the run or a slide task)
StepOfRun(t) == task_pc'[t] # task_pc[t] \/ task_done'[t] # task_done[t]

\* C3: while a generation run has started and not finished, no other
\* request handler or background task changes the session's status,
\* current_stage, error_message, counters or pipeline outputs.
C3_SingleWriterDuringRun ==
    [][\A t \in Tasks :
         (task_pc[t] = "gather" /\ ~StepOfRun(t)) =>
             UNCHANGED <<status, current_stage, error_message, qa_loops,
                         slides_completed, total_slides, order_form,
                         skeleton, planned_content, refined_content,
                         generated_presentation, qa_report>>]_vars

\* C4: the status changes from AwaitingClarification to
\* ClarificationComplete only in a state where is_fully_confirmed() holds.
C4_CompleteOnlyWhenConfirmed ==
    [][(status = AWAITING_CLARIFICATION /\ status' = CLARIFICATION_COMPLETE)
         => (IsSome(gathered_info') /\ is_fully_confirmed(Get(gathered_info')))
      ]_vars

\* C5: in every reachable state user_confirmed is true only if
\* confirmation_sent is true.
C5_ConfirmedOnlyAfterRequest ==
    IsSome(gathered_info) =>
        (Get(gathered_info).user_confirmed
            => Get(gathered_info).confirmation_sent)

\* the approve-outline call was applied without raising
ApprovedCall == last_approve.called /\ ~last_approve.raised
SlidesNow == Get(skeleton).slides
OrdersOf(slides) == [i \in DOMAIN slides |-> slides[i].order]

\* C6: after any modification list applied without raising, the order
\* values of the slide list are exactly 1..len(slides), without gaps or
\* duplicates, and no two positions hold the same slide.
C6_OrdersAreOneToN ==
    ApprovedCall =>
        /\ \A i \in DOMAIN SlidesNow : SlidesNow[i].order = i
        /\ \A i, j \in DOMAIN SlidesNow :
              SlidesNow[i].id = SlidesNow[j].id => i = j

\* the call was a single reorder whose new_order is a permutation of the
\* order values of the slides
SingleReorderCall ==
    /\ ApprovedCall
    /\ Len(last_approve.mods) = 1
    /\ last_approve.mods[1].action = "reorder"
    /\ last_approve.mods[1].new_order \in NewOrders(Len(last_approve.before))

\* C7: after a reorder with a permutation p of 1..N the list holds every
\* original slide exactly once and position i holds the slide that had
\* order p[i].
C7_ReorderFollowsPermutation ==
    SingleReorderCall =>
        LET p == last_approve.mods[1].new_order
            before == last_approve.before
        IN /\ Len(SlidesNow) = Len(before)
           /\ \A i \in DOMAIN SlidesNow : SlidesNow[i].id = before[p[i]].id

\* the call was a single remove of an order value k in 1..N
SingleRemoveCall ==
    /\ last_approve.called
    /\ Len(last_approve.mods) = 1
    /\ last_approve.mods[1].action = "remove"
    /\ IsSome(last_approve.mods[1].order)
    /\ Get(last_approve.mods[1].order) \in 1..Len(last_approve.before)

\* C8: a single remove of order k from slides ordered 1..N leaves the N-1
\* other slides in their relative order, renumbered 1..N-1.
C8_RemoveRenumbers ==
    SingleRemoveCall =>
        LET k == Get(last_approve.mods[1].order)
            before == last_approve.before
        IN /\ ~last_approve.raised
           /\ Len(SlidesNow) = Len(before) - 1
           /\ \A i \in DOMAIN SlidesNow :
                 SlidesNow[i] =
                     IF i < k THEN before[i]
                     ELSE [before[i + 1] EXCEPT !.order = i]

\* [1,2,3] with remove 2: the orders become [1,2] and old slide 3 is now 2
C8_Witness ==
    /\ SingleRemoveCall
    /\ OrdersOf(last_approve.before) = <<1, 2, 3>>
    /\ Get(last_approve.mods[1].order) = 2
    /\ OrdersOf(SlidesNow) = <<1, 2>>
    /\ SlidesNow[2].id = last_approve.before[3].id

\* the work state of approve_outline before the j-th modification
WorkBefore(j) ==
    LET before == last_approve.before
    IN ApplyMods([ids |-> IdsOf(before), heap |-> HeapOf(before),
                  next |-> Max({0} \cup {before[i].id : i \in DOMAIN before}) + 1,
                  raised |-> FALSE],
                 SubSeq(last_approve.mods, 1, j - 1))

\* a remove or modify whose order value matches no slide of the list
Unmatched(w, mod) ==
    /\ mod.action \in {"remove", "modify"}
    /\ Matching(w.ids, w.heap, mod.order) = {}

\* C9: a remove or modify whose order matches no slide is a no-op and not
\* an error: it leaves the slide list as it is wherever it stands in the
\* list, and an approval made only of such operations does not raise,
\* keeps the slides, their fields and sequence, and reaches OutlineApproved.
C9_UnmatchedIsNoOp ==
    last_approve.called =>
        /\ \A j \in DOMAIN last_approve.mods :
              LET w == WorkBefore(j)
              IN (~w.raised /\ Unmatched(w, last_approve.mods[j]))
                     => ApplyMod(w, last_approve.mods[j]) = w
        /\ (/\ last_approve.mods # <<>>
            /\ \A j \in DOMAIN last_approve.mods :
                  Unmatched(WorkBefore(1), last_approve.mods[j]))
               => /\ ~last_approve.raised
                  /\ SlidesNow = last_approve.before
                  /\ status = OUTLINE_APPROVED
                  /\ total_slides = Len(last_approve.before)

\* an approval of an unmatched remove followed by an unmatched modify
C9_Witness ==
    /\ last_approve.called
    /\ Len(last_approve.mods) = 2
    /\ last_approve.mods[1].action = "remove"
    /\ last_approve.mods[2].action = "modify"
    /\ \A j \in 1..2 : Unmatched(WorkBefore(1), last_approve.mods[j])
    /\ status = OUTLINE_APPROVED
    /\ SlidesNow = last_approve.before

\* C10: a flow state serialised with to_db_dict and restored with from_db
\* is equal to the original, field by field.
C10_RoundTripEqual ==
    IsSome(restored) => Get(restored).back = Get(restored).orig


AveragePasses ==
    /\ IsSome(qa_report)
    /\ Get(qa_report).average_score.sum
          >= pass_threshold * Get(qa_report).average_score.count

C13_CanRetryIffUnderMax ==
    \A a \in StageNames :
        /\ get_attempts(retry_tracker, a) = recorded[a]
        /\ can_retry(retry_tracker, a) <=> recorded[a] < MAX_ATTEMPTS

\* the planner's budget is used up, past the maximum, the refiner's is not
C13_Witness ==
    /\ recorded["planner"] = MAX_ATTEMPTS + 1
    /\ ~can_retry(retry_tracker, "planner")
    /\ recorded["refiner"] = 1
    /\ can_retry(retry_tracker, "refiner")
    /\ can_retry(retry_tracker, "generator")

\* C14: whenever the attempt count of a stage is >= MAX_ATTEMPTS, the
\* recovery decision for a failure of that stage is escalate, whatever the
\* failure type.
C14_ExhaustedEscalates ==
    (helper_decision.made
        /\ helper_decision.context.previous_attempts >= MAX_ATTEMPTS)
      => helper_decision.decision.action = "escalate"


\* the step is the except branch of run_generation: a stage of the run
\* raised, the status became Failed and the error event was emitted
StageFailure ==
    /\ status' = FAILED
    /\ status # FAILED
    /\ "error" \in emitted'
    /\ current_stage' \in StageNames

\* C15: the session becomes Failed because of a stage failure only after
\* the retry budget of that stage is used up (MAX_ATTEMPTS attempts
\* recorded); a first or second failure of a stage does not lead to Failed.
C15_FailedOnlyAfterBudget ==
    [][StageFailure => ~can_retry(retry_tracker', current_stage')]_vars

\* C17: in every session state, and in every state restored from its
\* persisted form, status = Failed implies that error_message is set.
C17_FailedHasMessage ==
    /\ status = FAILED => error_message # None
    /\ IsSome(restored) =>
          (Get(restored).back.status = FAILED
              => Get(restored).back.error_message # None)

\* C18: every transition of the session into Failed comes with the
\* emission of an error event before the Failed state is saved.
C18_FailedAfterErrorEvent ==
    [][(status' = FAILED /\ status # FAILED) => "error" \in emitted']_vars

\* the step is get_status answering for a session that has failed
StatusOfFailed ==
    /\ status' = FAILED
    /\ response' # response
    /\ response'.op = "status"

\* C19: a transition to Failed leaves the artifacts produced so far as
\* they were (order_form, skeleton, planned_content, refined_content,
\* generated_presentation, slides_completed), and get_status on the failed
\* session gives every one of them.
C19_FailureKeepsArtifacts ==
    [][/\ (status' = FAILED /\ status # FAILED) =>
             /\ UNCHANGED <<order_form, skeleton, slides_completed>>
             /\ IsSome(planned_content) => UNCHANGED planned_content
             /\ IsSome(refined_content) => UNCHANGED refined_content
             /\ IsSome(generated_presentation)
                   => UNCHANGED generated_presentation
       /\ StatusOfFailed =>
             /\ response'.body.order_form = order_form'
             /\ response'.body.skeleton = DumpSkeleton(skeleton')
             /\ response'.body.slides_completed = slides_completed'
             /\ IsSome(planned_content') =>
                   /\ "planned_content" \in DOMAIN response'.body
                   /\ response'.body.planned_content = planned_content'
             /\ IsSome(refined_content') =>
                   /\ "refined_content" \in DOMAIN response'.body
                   /\ response'.body.refined_content = refined_content'
             /\ IsSome(generated_presentation') =>
                   /\ "generated_presentation" \in DOMAIN response'.body
                   /\ response'.body.generated_presentation
                         = generated_presentation'
      ]_vars

\* the step refuses an operation asked for in a status that does not allow
\* it: a handler's status check (400), generate_outline's check of the
\* order form (500), or run_generation's check inside a background task
RefusedStep ==
    \/ response' # response /\ response'.code = 400
                            /\ response'.op # "result"
    \/ response' # response /\ response' = Response("outline", 500)
    \/ \E t \in Tasks : /\ task_pc[t] = "scheduled"
                        /\ task_pc'[t] = "done"
                        /\ status # OUTLINE_APPROVED

\* C20: an operation asked for in a status in which it is not allowed
\* leaves the status, error_message and every other state field unchanged.
C20_RefusedLeavesState ==
    [][RefusedStep => UNCHANGED flowVars]_vars



\* ------------------------------------------------------------ progress count
\* a slide task of some run has not finished yet
SlideTaskPending ==
    \E t \in Tasks : task_pc[t] = "gather" /\ task_done[t] < Len(task_slides[t])

\* C21: in every reachable state slides_completed <= total_slides, and
\* slides_completed does not equal total_slides while a slide task of the
\* run is still to finish.
C21_ProgressWithinTotal ==
    /\ slides_completed <= total_slides
    /\ (SlideTaskPending => slides_completed # total_slides)

\* ---------------------------------------------------------- stage order
Stages == <<"planner", "refiner", "generator", "visual_qa">>

\* the positions of run_events holding event e
At(e) == {i \in DOMAIN run_events : run_events[i] = e}

\* C22: within a generation run the stages go planner, refiner, generator,
\* visual_qa: a stage's stage_start comes after the storing of its
\* predecessor's output and after the predecessor's stage_complete, and
\* the complete event comes after all four stage_complete events.
C22_StagesInOrder ==
    /\ \A k \in 2..Len(Stages) :
          \A i \in At(Event("stage_start", Stages[k])) :
             /\ \E j \in At(Event("stored", Stages[k - 1])) : j < i
             /\ \E j \in At(Event("stage_complete", Stages[k - 1])) : j < i
    /\ \A i \in At(Event("complete", None)) :
          \A k \in DOMAIN Stages :
             \E j \in At(Event("stage_complete", Stages[k])) : j < i

\* a run went through its four stages and emitted complete
C22_Witness ==
    /\ status = COMPLETED
    /\ At(Event("complete", None)) # {}
    /\ At(Event("stage_start", "visual_qa")) # {}
    /\ Len(run_events) > 12

\* -------------------------------------------------- order along the chain
\* C23: after a completed run the sequence of slide orders is the same in
\* the approved skeleton, the planned content, the refined content and the
\* generated presentation.
C23_OrdersKeptAlongChain ==
    status = COMPLETED =>
        LET approved == OrdersOf(Get(skeleton).slides)
        IN /\ OrdersOf(Get(planned_content).slides) = approved
           /\ OrdersOf(Get(refined_content).slides) = approved
           /\ OrdersOf(Get(generated_presentation).slides) = approved

\* ------------------------------------------------------ order form frame
\* the statuses of a session whose clarification is complete
AfterClarification ==
    FlowStatus \ {SYNTHESIZING, AWAITING_CLARIFICATION}

\* C24: once the status has become clarification_complete no operation on
\* the session changes the order form.
C24_OrderFormImmutable ==
    [][(status \in AfterClarification) => (order_form' = order_form)]_vars

\* the order form of a session that went on to the outline, its approval
\* and a whole generation run
C24_Witness ==
    /\ status = COMPLETED
    /\ IsSome(order_form) /\ Get(order_form).is_complete
    /\ last_approve.called
    /\ response.op \in {"status", "result"}

\* ------------------------------------------------------ gathered information
FlagFields ==
    {"has_title", "has_audience", "has_slide_count", "has_focus_areas",
     "has_emphasis_style", "has_tone", "has_citation_style",
     "has_references_placement", "has_theme", "let_agent_decide_title",
     "let_agent_decide_theme", "let_agent_decide_citation",
     "confirmation_sent", "user_confirmed"}
SlotFields ==
    {"title", "audience", "emphasis_style", "tone", "citation_style",
     "references_placement", "theme"}

\* the gathered info of the session, GatheredInfo() while there is none
InfoNow == IF IsSome(gathered_info) THEN Get(gathered_info) ELSE GatheredInfo

\* nothing that `before` holds is missing from `after`
NoRegress(before, after) ==
    /\ \A f \in FlagFields : before[f] => after[f]
    /\ \A f \in SlotFields : before[f] # None => after[f] # None
    /\ before.slide_count # 0 => after.slide_count # 0
    /\ Len(before.focus_areas) <= Len(after.focus_areas)
    /\ SubSeq(after.focus_areas, 1, Len(before.focus_areas))
          = before.focus_areas

\* C25: over any sequence of user messages a presence, delegate or
\* confirmation flag that is true stays true, a slot that holds a value
\* keeps holding one, and focus_areas loses no element.
C25_NeverRegresses ==
    [][IsSome(gathered_info') => NoRegress(InfoNow, Get(gathered_info'))]_vars

\* a message without a usable cue came after the slots were filled
C25_Witness ==
    /\ Len(last_messages) = 2
    /\ last_messages[2] = MsgNoise
    /\ InfoNow.has_title /\ InfoNow.title = "renewable energy"
    /\ InfoNow.slide_count = 10
    /\ InfoNow.focus_areas = <<"renewable energy", "solar and wind">>

\* the value a message's cues give for each extractable text field, None
\* where it has no usable cue for the field
Cues(m) ==
    [title |-> FirstLongTopic(m.topics),
     audience |-> IF m.audience # None THEN m.audience ELSE m.audience_stmt,
     citation_style |-> m.citation,
     tone |-> m.tone,
     emphasis_style |-> m.emphasis,
     theme |-> m.theme]

\* C26: when two successive user messages each carry a cue for a field,
\* with different values, the field holds the value of the later message
\* once both have been extracted.
C26_LastWriteWins ==
    Len(last_messages) = 2 =>
        LET first == last_messages[1]
            later == last_messages[2]
        IN /\ \A f \in DOMAIN Cues(later) :
                 (/\ Cues(first)[f] # None
                  /\ Cues(later)[f] # None
                  /\ Cues(first)[f] # Cues(later)[f])
                 => InfoNow[f] = Cues(later)[f]
           /\ (/\ FirstCountInRange(first.counts) # 0
               /\ FirstCountInRange(later.counts) # 0
               /\ FirstCountInRange(first.counts)
                     # FirstCountInRange(later.counts))
              => InfoNow.slide_count = FirstCountInRange(later.counts)

\* ------------------------------------------------------- complete enough
RequiredFlags ==
    {"has_title", "has_audience", "has_slide_count", "has_focus_areas"}

\* the message has no usable cue for a required field
NoRequiredCue(m) ==
    /\ FirstLongTopic(m.topics) = None
    /\ ~(m.decide /\ "title" \in m.words)
    /\ m.audience = None /\ m.audience_stmt = None
    /\ FirstCountInRange(m.counts) = 0
    /\ \A i \in DOMAIN m.focus : m.focus[i].len <= FocusMinLen

\* a /clarify step whose message has no usable cue for a required field
UnrelatedMessageStep ==
    /\ last_messages' # last_messages
    /\ NoRequiredCue(last_messages'[Len(last_messages')])

SlideRange == MinSlides..MaxSlides

\* the message names slide counts, all of them outside the range
OnlyCountsOutOfRange(m) ==
    /\ m.counts # <<>>
    /\ \A i \in DOMAIN m.counts : m.counts[i] \notin SlideRange

\* C28: gathered_info.slide_count is unset or within [3,50], the order
\* form's target_slides is within [3,50], and a message whose only slide
\* count is outside [3,50] leaves slide_count and has_slide_count as they
\* were.
C28_SlideCountInRange ==
    /\ [](/\ InfoNow.slide_count = 0 \/ InfoNow.slide_count \in SlideRange
          /\ IsSome(order_form) => Get(order_form).target_slides \in SlideRange)
    /\ [][(/\ last_messages' # last_messages
            /\ OnlyCountsOutOfRange(last_messages'[Len(last_messages')]))
           => (/\ Get(gathered_info').slide_count = InfoNow.slide_count
               /\ Get(gathered_info').has_slide_count
                     = InfoNow.has_slide_count)]_vars

\* "100 slides" came after a count of 10 had been gathered
C28_Witness ==
    /\ Len(last_messages) = 2
    /\ last_messages[2] = MsgTooManySlides
    /\ InfoNow.slide_count = 10 /\ InfoNow.has_slide_count
    /\ IsSome(order_form)

\* ------------------------------------------------------------------ emit
\* C29: emit delivers the event to every registered listener exactly once,
\* in registration order, whether or not a listener raises, and returns
\* normally.
C29_EmitReachesEveryListener ==
    last_emit.made =>
        /\ last_emit.delivered = [i \in DOMAIN last_emit.listeners |-> i]
        /\ ~last_emit.raised

\* an emit with a raising listener registered before another listener
C29_Witness ==
    /\ last_emit.made
    /\ Len(last_emit.listeners) = 3
    /\ Raises(last_emit.listeners[1])
    /\ Raises(last_emit.listeners[2])
    /\ ~Raises(last_emit.listeners[3])
    /\ Len(last_emit.delivered) = 3

\* ------------------------------------------------------ progress streams
\* a step of a progress stream, of get_status or of get_result
ObservingStep ==
    \/ stream' # stream
    \/ response' # response /\ response'.op \in {"status", "result"}

\* C30: opening, reading or disconnecting a progress stream, and
\* get_status and get_result, change no field of the session and stop no
\* run: a started run reaches completed or failed with or without a
\* stream.
C30_StreamsOnlyObserve ==
    /\ [][ObservingStep => UNCHANGED <<flowVars, taskVars>>]_vars
    /\ \A t \in Tasks :
          [](task_pc[t] \in {"scheduled", "gather"}
               => <>(task_pc[t] = "done" /\ status \in {COMPLETED, FAILED}))

\* the client left during the generator stage and the run completed
C30_Witness ==
    /\ status = COMPLETED
    /\ stream.pc = "disconnected"
    /\ stream.last_stage = "generator"

\* ------------------------------------------------------------ get_result
\* C31: get_result answers with the presentation (200) only for a session
\* whose status is completed; in any other status it answers with a 409
\* error and no presentation.
C31_ResultOnlyWhenCompleted ==
    [][GetResult => (response'.code = IF status = COMPLETED THEN 200 ELSE 409)
      ]_vars

\* ----------------------------------------------------------- synthesis
\* the sections of the files whose tool call returned a KnowledgeBase, in
\* input order
RECURSIVE SucceededSections(_)
SucceededSections(returned) ==
    IF returned = <<>> THEN <<>>
    ELSE (IF Head(returned).is_str THEN <<>> ELSE Head(returned).sections)
         \o SucceededSections(Tail(returned))

\* C32: whichever files fail to be synthesised, a run_synthesis call that
\* has ended leaves the session in awaiting_clarification, never in
\* synthesizing, with a knowledge base holding exactly the sections of the
\* files that succeeded, in input order.
C32_SynthesisEndsAwaitingClarification ==
    synth.pc \in {"done", "raised"}
       => /\ status = AWAITING_CLARIFICATION
          /\ IsSome(knowledge_base)
          /\ Get(knowledge_base).sections = SucceededSections(synth.returned)

\* ------------------------------------------------------- metrics ledger
\* the sum of field f of the agents named in names
RECURSIVE AgentSum(_, _, _)
AgentSum(agents, names, f) ==
    IF names = {} THEN 0
    ELSE LET a == CHOOSE x \in names : TRUE
         IN agents[a][f] + AgentSum(agents, names \ {a}, f)

IsPrefix(s, t) == Len(s) <= Len(t) /\ SubSeq(t, 1, Len(s)) = s

TotalsConsistent(metrics) ==
    LET agents == metrics.agents
        names == DOMAIN agents
    IN /\ metrics.total_input_tokens
            = AgentSum(agents, names, "total_input_tokens")
       /\ metrics.total_output_tokens
            = AgentSum(agents, names, "total_output_tokens")
       /\ metrics.total_thinking_tokens
            = AgentSum(agents, names, "total_thinking_tokens")
       /\ metrics.total_api_calls = AgentSum(agents, names, "calls")

LedgerGrows(before, after) ==
    /\ before.total_input_tokens <= after.total_input_tokens
    /\ before.total_output_tokens <= after.total_output_tokens
    /\ before.total_thinking_tokens <= after.total_thinking_tokens
    /\ before.total_api_calls <= after.total_api_calls
    /\ \A a \in DOMAIN before.agents :
          /\ a \in DOMAIN after.agents
          /\ IsPrefix(before.agents[a].call_history,
                      after.agents[a].call_history)
          /\ before.agents[a].total_input_tokens
                <= after.agents[a].total_input_tokens
          /\ before.agents[a].total_output_tokens
                <= after.agents[a].total_output_tokens
          /\ before.agents[a].total_thinking_tokens
                <= after.agents[a].total_thinking_tokens

\* C33: after any sequence of record calls each agent's call_history has
\* only grown, with its earlier entries unchanged, no token total has
\* decreased, the session's token totals and total_api_calls are the sums
\* over its agents, and a record call for one session changes no other
\* session's metrics.
C33_MetricsLedgerConsistent ==
    /\ [](\A s \in DOMAIN metrics_instances :
             TotalsConsistent(metrics_instances[s]))
    /\ [][\A s \in DOMAIN metrics_instances :
             /\ s \in DOMAIN metrics_instances'
             /\ LedgerGrows(metrics_instances[s], metrics_instances'[s])
             /\ \A o \in DOMAIN metrics_instances \ {s} :
                   (metrics_instances'[s] # metrics_instances[s])
                      => (metrics_instances'[o] = metrics_instances[o])
         ]_vars

\* two sessions with recorded calls, one agent of the first with two calls
C33_Witness ==
    /\ DOMAIN metrics_instances = {"session-1", "session-2"}
    /\ "planner" \in DOMAIN metrics_instances["session-1"].agents
    /\ Len(metrics_instances["session-1"].agents["planner"].call_history) = 2
    /\ metrics_instances["session-2"].total_api_calls = 1

\* --------------------------------------------------------------- polling
\* the latest answer of interactions.get carried a terminal remote status
TerminalObserved ==
    /\ IsSome(poll.reply)
    /\ ~Get(poll.reply).raises
    /\ Get(poll.reply).status \in {"completed", "failed", "cancelled"}

\* C34: poll_research_status ends for every sequence of remote statuses
\* and polling errors, with one of completed, failed, cancelled or
\* timeout; when it ends without having observed a terminal remote status
\* it returns timeout, never failed.
C34_PollingTerminates ==
    /\ [](poll.pc \in {"polling", "sleeping"} => <>(poll.pc = "returned"))
    /\ [](poll.pc = "returned"
            => /\ poll.result
                    \in {"completed", "failed", "cancelled", "timeout"}
               /\ (~TerminalObserved => poll.result = "timeout"))

\* the ceiling was reached after polling errors and non-terminal statuses
C34_Witness ==
    /\ poll.pc = "returned"
    /\ poll.result = "timeout"
    /\ poll.max_wait_seconds = 100
    /\ IsSome(poll.reply)
    /\ Get(poll.reply).raises
    /\ poll.slept > 0

\* C35: the time waited between polls, the sum of the sleep intervals,
\* never exceeds max_wait_seconds.
C35_WaitWithinCeiling ==
    poll.slept <= poll.max_wait_seconds

\* ------------------------------------------------------ start_generation
\* the start_generation requests accepted so far: each scheduled one
\* background task
AcceptedStarts == {t \in Tasks : task_pc[t] # "unused"}

\* C36: whatever the interleaving of start_generation requests on a
\* session, at most one of them is accepted and schedules a background
\* task; every other one is refused and schedules nothing.
C36_AtMostOneStartAccepted ==
    Cardinality(AcceptedStarts) <= 1

\* ------------------------------------------------- approve_outline, again
\* C37: an approve_outline call that raises while applying its
\* modification list leaves the skeleton's slide list with every slide's
\* order, total_slides and the status exactly as before the call, so
\* total_slides is still the length of the list and the orders are 1..N.
C37_FailedApprovalChangesNothing ==
    (last_approve.called /\ last_approve.raised) =>
        /\ SlidesNow = last_approve.before
        /\ status = AWAITING_OUTLINE_APPROVAL
        /\ total_slides = Len(SlidesNow)
        /\ \A i \in DOMAIN SlidesNow : SlidesNow[i].order = i

\* the slide objects of work state w that differ in work state v
Patched(w, v) == {x \in DOMAIN w.heap : v.heap[x] # w.heap[x]}

\* C38: within one modification list applied in array order each remove
\* deletes at most one slide and each modify patches at most one slide,
\* whatever operations precede it in the list.
C38_RemoveAndModifyTouchOneSlide ==
    last_approve.called =>
        \A j \in DOMAIN last_approve.mods :
            LET w == WorkBefore(j)
                mod == last_approve.mods[j]
                v == ApplyMod(w, mod)
            IN ~w.raised =>
                  /\ (mod.action = "remove" => Len(v.ids) >= Len(w.ids) - 1)
                  /\ (mod.action = "modify" => Cardinality(Patched(w, v)) <= 1)

\* ------------------------------------------------------- terminal event
\* C39: a progress stream opened at any time after start_generation was
\* accepted ends only with one terminal event, complete for a completed
\* session and error for a failed one; it never ends without one while
\* the generation has not reached a terminal status.
C39_StreamEndsWithTerminalEvent ==
    stream.pc = "ended" =>
        \/ status = COMPLETED /\ stream.sent = <<"complete">>
        \/ status = FAILED /\ stream.sent = <<"error">>

\* ------------------------------------------------------ completed session
\* C40: in every reachable session state, status completed implies a
\* generated_presentation with at least one slide whose total_slides is
\* the number of its slides, and a qa_report; so get_result on a completed
\* session finds a presentation.
C40_CompletedHasPresentation ==
    /\ [](status = COMPLETED
            => /\ IsSome(generated_presentation)
               /\ Len(Get(generated_presentation).slides) >= 1
               /\ Get(generated_presentation).total_slides
                     = Len(Get(generated_presentation).slides)
               /\ IsSome(qa_report))
    /\ [][(GetResult /\ status = COMPLETED) => (response'.code = 200)]_vars

\* get_result answered 200 for a run completed from the outline's plan
C40_Witness ==
    /\ status = COMPLETED
    /\ response = Response("result", 200)
    /\ Len(Get(generated_presentation).slides) = total_slides
    /\ slides_completed = total_slides

====
